---- MODULE Spec2Model ----
(***************************************************************************)
(* A model of azsync: the reconciliation decision (src/sync.rs), the       *)
(* per-variable decision of the dotenv command (src/commands/dotenv.rs),   *)
(* the dotenv document: expansion, unescaping, parsing and rewriting       *)
(* (src/dotenv/*.rs), and the runs of the dotenv and file commands         *)
(* (src/commands/dotenv.rs, src/commands/file.rs).                         *)
(*                                                                         *)
(* Text is a sequence of one-character strings.  An Option<T> is a         *)
(* sequence of length at most one: None is << >> and Some(x) is << x >>.   *)
(***************************************************************************)
EXTENDS Integers, Sequences, FiniteSets, TLC

VARIABLES
    \* The inputs and results of the two decision procedures
    sync_mode,        \* SyncMode handed to the operation
    local_value,      \* Option<String>: value of the variable in the dotenv file
    remote_value,     \* Option<String>: value of the secret in the Key Vault
    local_modified,   \* Option<OffsetDateTime>, in seconds
    remote_modified,  \* Option<OffsetDateTime>, in seconds
    sync_type,        \* Option<SyncType>: what SyncType::from_modified returned
    var_action,       \* Option<VarAction>: what the dotenv command decided
    \* The input and results of escape
    new_value,        \* String: the value to write
    known,            \* HashMap<String, String>: the variables known when reading back
    escaped,          \* Option<String>: what escape returned
    read_back,        \* Option<String>: the written form, processed as a value
    \* A parsed dotenv file and its rewriting
    dotenv,           \* DotenvFile: the parsed file
    replacements,     \* HashMap<String, String> handed to replace
    content,          \* Option<String>: what replace returned
    reparsed,         \* Option<Option<DotenvFile>>: the parse of what replace returned
    rewritten,        \* Option: the same replacements applied to `reparsed`
    \* A parse, one definition at a time
    parsing,          \* the locals of DotenvFile::parse and the definitions read so far
    \* An expansion, one step of Expand::next at a time
    expand_input,     \* String: the characters handed to expand
    expand_parameters,\* HashMap<String, String>: the parameters handed to expand
    expansion,        \* Expand: the iterator
    expansion_steps,  \* the states the iterator has been in, from the first
    unescaping,       \* Unescape: the iterator that reads what `expansion` returns
    \* A run of a sync command
    options,          \* the command and its SyncOptions
    disk,             \* the local files
    store,            \* the Key Vault secrets and the blobs of the container
    run,              \* the locals of execute: position, loaded file, actions
    log               \* the reads, prompts, writes and transfers made so far

decide_vars == << sync_mode, local_value, remote_value, local_modified,
                  remote_modified, sync_type, var_action >>
escape_vars == << new_value, known, escaped, read_back >>

file_vars == << dotenv, replacements, content, reparsed, rewritten >>

parse_vars == << parsing >>

expand_vars == << expand_input, expand_parameters, expansion, expansion_steps,
                 unescaping >>

run_vars == << options, disk, store, run, log >>

vars == << decide_vars, escape_vars, file_vars, run_vars, parse_vars, expand_vars >>

(***************************************************************************)
(* Bounds                                                                  *)
(***************************************************************************)
\* Timestamps range over 0..MaxTime seconds.
MaxTime == 62

\* The values handed to escape have at most MaxValueLen characters.
MaxValueLen == 4

\* A dotenv file has at most MaxLines lines.
MaxLines == 2

\* The new values of one replace call have at most MaxEditChars characters
\* in all.
MaxEditChars == 3

\* Lines of a file that is parsed one definition at a time
MaxParseLines == 3

\* The strings handed to expand have at most MaxExpandLen characters.
MaxExpandLen == 5

Times == 0..MaxTime

(***************************************************************************)
(* Program constants                                                       *)
(***************************************************************************)
\* Duration::minutes(1), in seconds.
Minute == 60

(***************************************************************************)
(* Option<T>                                                               *)
(***************************************************************************)
None == << >>
Some(x) == << x >>
IsSome(o) == Len(o) = 1
IsNone(o) == Len(o) = 0
Unwrap(o) == o[1]

Abs(x) == IF x < 0 THEN -x ELSE x

(***************************************************************************)
(* src/cli/sync.rs: SyncMode                                               *)
(***************************************************************************)
SyncMode == {"Sync", "Push", "Pull", "PushAlways", "PullAlways"}

(***************************************************************************)
(* src/sync.rs: SyncType and SyncType::from_modified.  The builders are    *)
(* the ones of the repository's test: push and pull return the timestamp   *)
(* they receive, so the payload of a decision is that timestamp.           *)
(***************************************************************************)
SyncType_Push(modified) == [kind |-> "Push", modified |-> Some(modified), reason |-> ""]
SyncType_Pull(modified) == [kind |-> "Pull", modified |-> Some(modified), reason |-> ""]
SyncType_Skip(reason) == [kind |-> "Skip", modified |-> None, reason |-> reason]

\* (Some(local), Some(remote)) if (local - remote).abs() < Duration::minutes(1)
both_close(mode, local, remote) ==
    CASE mode \in {"Sync", "Push", "Pull"} -> SyncType_Skip("unchanged")
      [] mode = "PushAlways" -> SyncType_Push(local)
      [] mode = "PullAlways" -> SyncType_Pull(local)

\* (Some(local), Some(remote)) if local > remote
local_newer(mode, local, remote) ==
    CASE mode \in {"Sync", "Push", "PushAlways"} -> SyncType_Push(local)
      [] mode = "Pull" -> SyncType_Skip("pull disabled")
      [] mode = "PullAlways" -> SyncType_Pull(remote)

\* local_only in which PullAlways pulls whatever the remote side holds.
local_only_always_pulls(mode, local) ==
    CASE mode \in {"Sync", "Push", "PushAlways"} -> SyncType_Push(local)
      [] mode = "Pull" -> SyncType_Skip("pull disabled")
      [] mode = "PullAlways" -> SyncType_Pull(local)

\* (Some(local), None)
local_only(mode, local) ==
    CASE mode \in {"Sync", "Push", "PushAlways"} -> SyncType_Push(local)
      [] mode = "Pull" -> SyncType_Skip("pull disabled")
      [] mode = "PullAlways" -> SyncType_Skip("nothing to pull")

\* (Some(local), Some(remote)), the remaining case: remote newer
remote_newer(mode, local, remote) ==
    CASE mode \in {"Sync", "Pull", "PullAlways"} -> SyncType_Pull(remote)
      [] mode = "Push" -> SyncType_Skip("push disabled")
      [] mode = "PushAlways" -> SyncType_Push(local)

\* (None, Some(remote))
remote_only(mode, remote) ==
    CASE mode \in {"Sync", "Pull", "PullAlways"} -> SyncType_Pull(remote)
      [] mode = "Push" -> SyncType_Skip("push disabled")
      [] mode = "PushAlways" -> SyncType_Skip("nothing to push")

\* Mutant: the one-minute tolerance is not applied.
from_modified_no_tolerance(mode, local_mod, remote_mod) ==
    LET local == Unwrap(local_mod)
        remote == Unwrap(remote_mod)
    IN  IF IsSome(local_mod) /\ IsSome(remote_mod) /\ local > remote
        THEN local_newer(mode, local, remote)
        ELSE IF IsSome(local_mod) /\ IsNone(remote_mod) THEN local_only(mode, local)
        ELSE IF IsSome(local_mod) /\ IsSome(remote_mod)
        THEN remote_newer(mode, local, remote)
        ELSE IF IsNone(local_mod) /\ IsSome(remote_mod) THEN remote_only(mode, remote)
        ELSE SyncType_Skip("not found")

\* Mutant: a difference of exactly one minute still counts as unchanged.
from_modified_inclusive(mode, local_mod, remote_mod) ==
    LET local == Unwrap(local_mod)
        remote == Unwrap(remote_mod)
    IN  IF IsSome(local_mod) /\ IsSome(remote_mod) /\ Abs(local - remote) <= Minute
        THEN both_close(mode, local, remote)
        ELSE IF IsSome(local_mod) /\ IsSome(remote_mod) /\ local > remote
        THEN local_newer(mode, local, remote)
        ELSE IF IsSome(local_mod) /\ IsNone(remote_mod) THEN local_only(mode, local)
        ELSE IF IsSome(local_mod) /\ IsSome(remote_mod)
        THEN remote_newer(mode, local, remote)
        ELSE IF IsNone(local_mod) /\ IsSome(remote_mod) THEN remote_only(mode, remote)
        ELSE SyncType_Skip("not found")

\* Mutant: the difference is taken without .abs(), so a much older local
\* timestamp counts as unchanged.
from_modified_no_abs(mode, local_mod, remote_mod) ==
    LET local == Unwrap(local_mod)
        remote == Unwrap(remote_mod)
    IN  IF IsSome(local_mod) /\ IsSome(remote_mod) /\ local - remote < Minute
        THEN both_close(mode, local, remote)
        ELSE IF IsSome(local_mod) /\ IsSome(remote_mod) /\ local > remote
        THEN local_newer(mode, local, remote)
        ELSE IF IsSome(local_mod) /\ IsNone(remote_mod) THEN local_only(mode, local)
        ELSE IF IsSome(local_mod) /\ IsSome(remote_mod)
        THEN remote_newer(mode, local, remote)
        ELSE IF IsNone(local_mod) /\ IsSome(remote_mod) THEN remote_only(mode, remote)
        ELSE SyncType_Skip("not found")

\* Mutant: the two one-sided arms are exchanged.
from_modified_sides_swapped(mode, local_mod, remote_mod) ==
    LET local == Unwrap(local_mod)
        remote == Unwrap(remote_mod)
    IN  IF IsSome(local_mod) /\ IsSome(remote_mod) /\ Abs(local - remote) < Minute
        THEN both_close(mode, local, remote)
        ELSE IF IsSome(local_mod) /\ IsSome(remote_mod) /\ local > remote
        THEN local_newer(mode, local, remote)
        ELSE IF IsSome(local_mod) /\ IsNone(remote_mod) THEN remote_only(mode, local)
        ELSE IF IsSome(local_mod) /\ IsSome(remote_mod)
        THEN remote_newer(mode, local, remote)
        ELSE IF IsNone(local_mod) /\ IsSome(remote_mod) THEN local_only(mode, remote)
        ELSE SyncType_Skip("not found")

\* SyncType::from_modified: the match on (local_modified, remote_modified),
\* arm by arm in the order of the source.
from_modified(mode, local_mod, remote_mod) ==
    LET local == Unwrap(local_mod)
        remote == Unwrap(remote_mod)
    IN  IF IsSome(local_mod) /\ IsSome(remote_mod) /\ Abs(local - remote) < Minute
        THEN both_close(mode, local, remote)
        ELSE IF IsSome(local_mod) /\ IsSome(remote_mod) /\ local > remote
        THEN local_newer(mode, local, remote)
        ELSE IF IsSome(local_mod) /\ IsNone(remote_mod) THEN local_only(mode, local)
        ELSE IF IsSome(local_mod) /\ IsSome(remote_mod)
        THEN remote_newer(mode, local, remote)
        ELSE IF IsNone(local_mod) /\ IsSome(remote_mod) THEN remote_only(mode, remote)
        ELSE SyncType_Skip("not found")

(***************************************************************************)
(* src/commands/dotenv.rs: VarAction and the per-variable decision         *)
(***************************************************************************)
VarAction_Pull(value) == [kind |-> "Pull", value |-> Some(value), reason |-> ""]
VarAction_Push(value) == [kind |-> "Push", value |-> Some(value), reason |-> ""]
VarAction_Skip(reason) == [kind |-> "Skip", value |-> None, reason |-> reason]

\* Mutant: push_only leaves a Pull as it is.
push_only_keeps_pull(action) == action

\* VarAction::push_only
push_only(action) ==
    IF action.kind = "Pull" THEN VarAction_Skip("pull disabled") ELSE action

\* VarAction::pull_only
pull_only(action) ==
    IF action.kind = "Push" THEN VarAction_Skip("push disabled") ELSE action

\* Mutant: the newer-version comparison is reversed.
VarAction_sync_reversed(local_val, remote_val, local_mod, remote_mod) ==
    IF IsSome(local_val) /\ IsSome(remote_val) /\ Unwrap(local_val) = Unwrap(remote_val)
    THEN VarAction_Skip("unchanged")
    ELSE IF IsSome(local_val) /\ IsSome(remote_val)
    THEN IF IsSome(local_mod) /\ IsSome(remote_mod)
               /\ Unwrap(remote_mod) <= Unwrap(local_mod)
         THEN VarAction_Pull(Unwrap(remote_val))
         ELSE IF IsSome(local_mod)
         THEN VarAction_Push(Unwrap(local_val))
         ELSE IF IsSome(remote_mod)
         THEN VarAction_Pull(Unwrap(remote_val))
         ELSE VarAction_Skip("unknown modified times")
    ELSE IF IsSome(local_val)
    THEN VarAction_Push(Unwrap(local_val))
    ELSE IF IsSome(remote_val)
    THEN VarAction_Pull(Unwrap(remote_val))
    ELSE VarAction_Skip("no value found")

\* Mutant: equal values are not short-circuited.
VarAction_sync_no_unchanged(local_val, remote_val, local_mod, remote_mod) ==
    IF IsSome(local_val) /\ IsSome(remote_val)
    THEN IF IsSome(local_mod) /\ IsSome(remote_mod)
               /\ Unwrap(remote_mod) >= Unwrap(local_mod)
         THEN VarAction_Pull(Unwrap(remote_val))
         ELSE IF IsSome(local_mod)
         THEN VarAction_Push(Unwrap(local_val))
         ELSE IF IsSome(remote_mod)
         THEN VarAction_Pull(Unwrap(remote_val))
         ELSE VarAction_Skip("unknown modified times")
    ELSE IF IsSome(local_val)
    THEN VarAction_Push(Unwrap(local_val))
    ELSE IF IsSome(remote_val)
    THEN VarAction_Pull(Unwrap(remote_val))
    ELSE VarAction_Skip("no value found")

\* VarAction::sync
VarAction_sync(local_val, remote_val, local_mod, remote_mod) ==
    IF IsSome(local_val) /\ IsSome(remote_val) /\ Unwrap(local_val) = Unwrap(remote_val)
    THEN \* Unchanged
         VarAction_Skip("unchanged")
    ELSE IF IsSome(local_val) /\ IsSome(remote_val)
    THEN \* Conflict: determine newer version
         IF IsSome(local_mod) /\ IsSome(remote_mod)
               /\ Unwrap(remote_mod) >= Unwrap(local_mod)
         THEN VarAction_Pull(Unwrap(remote_val))
         ELSE IF IsSome(local_mod)
         THEN VarAction_Push(Unwrap(local_val))
         ELSE IF IsSome(remote_mod)
         THEN VarAction_Pull(Unwrap(remote_val))
         ELSE VarAction_Skip("unknown modified times")
    ELSE IF IsSome(local_val)
    THEN \* Only available locally
         VarAction_Push(Unwrap(local_val))
    ELSE IF IsSome(remote_val)
    THEN \* Only available in remote
         VarAction_Pull(Unwrap(remote_val))
    ELSE VarAction_Skip("no value found")

\* get_remote_vars, for one secret: under PushAlways the store is not read.
get_remote_var(mode, secret) ==
    IF mode = "PushAlways" THEN None ELSE secret

\* The closure of DotenvOptions::execute that maps a name to its VarAction.
\* remote_var is the entry of remote_vars for the name: None, or
\* Some(<<value, Option<modified>>>).
execute_var_action(mode, local_val, remote_var, local_mod) ==
    LET remote_val == IF IsSome(remote_var) THEN Some(Unwrap(remote_var)[1]) ELSE None
        \* remote_modified.flatten()
        remote_mod == IF IsSome(remote_var) THEN Unwrap(remote_var)[2] ELSE None
    IN  CASE mode = "Sync" ->
                VarAction_sync(local_val, remote_val, local_mod, remote_mod)
          [] mode = "Push" ->
                push_only(VarAction_sync(local_val, remote_val, local_mod, remote_mod))
          [] mode = "Pull" ->
                pull_only(VarAction_sync(local_val, remote_val, local_mod, remote_mod))
          [] mode = "PushAlways" ->
                IF IsSome(local_val) THEN VarAction_Push(Unwrap(local_val))
                ELSE VarAction_Skip("No local value")
          [] mode = "PullAlways" ->
                IF IsSome(remote_val) THEN VarAction_Pull(Unwrap(remote_val))
                ELSE VarAction_Skip("No remote value")

(***************************************************************************)
(* Text.  A String is a sequence of one-character strings; a byte range    *)
(* start..end (Range<usize>) is [start |-> s, end |-> e], counted from 0   *)
(* with the end excluded.                                                  *)
(***************************************************************************)
Slice(s, start, end) == SubSeq(s, start + 1, end)

\* The text without its first n characters.
Drop(text, n) == SubSeq(text, n + 1, Len(text))

\* Mutant: the new text is inserted at the start of the range, and the old
\* text of the range is kept.
replace_range_inserts(s, span, with) ==
    Slice(s, 0, span.start) \o with \o Slice(s, span.start, Len(s))

\* String::replace_range(span, with)
replace_range(s, span, with) ==
    Slice(s, 0, span.start) \o with \o Slice(s, span.end, Len(s))

RECURSIVE str_replace(_, _, _)
\* str::replace(c, with), for a one-character pattern.
str_replace(s, c, with) ==
    IF s = << >> THEN << >>
    ELSE (IF Head(s) = c THEN with ELSE << Head(s) >>) \o str_replace(Tail(s), c, with)

\* str::contains(&[char])
str_contains(s, chars) == \E i \in 1..Len(s) : s[i] \in chars

\* char::is_whitespace, on the characters of the model.
White_Space == {" ", "\t", "\n", "\r"}

RECURSIVE trim_start(_)
trim_start(s) ==
    IF s /= << >> /\ Head(s) \in White_Space THEN trim_start(Tail(s)) ELSE s

RECURSIVE trim_end(_)
trim_end(s) ==
    IF s /= << >> /\ s[Len(s)] \in White_Space
    THEN trim_end(SubSeq(s, 1, Len(s) - 1)) ELSE s

\* str::trim
trim(s) == trim_end(trim_start(s))

\* char::is_alphabetic and char::is_ascii_digit, on the characters of the model.
Alphabetic ==
    {"a", "b", "c", "d", "e", "f", "g", "h", "i", "j", "k", "l", "m",
     "n", "o", "p", "q", "r", "s", "t", "u", "v", "w", "x", "y", "z",
     "A", "B", "C", "D", "E", "F", "G", "H", "I", "J", "K", "L", "M",
     "N", "O", "P", "Q", "R", "S", "T", "U", "V", "W", "X", "Y", "Z"}
AsciiDigit == {"0", "1", "2", "3", "4", "5", "6", "7", "8", "9"}

is_ascii_digit(c) == c \in AsciiDigit

\* src/dotenv/expand.rs: is_name_start
is_name_start(c) == c = "_" \/ c \in Alphabetic

(***************************************************************************)
(* src/dotenv/unescape.rs: Unescape.  The iterator is its remaining input, *)
(* its `escaped` flag and the characters it has returned so far.           *)
(***************************************************************************)
Unescape(chars) == [inner |-> chars, escaped |-> FALSE, out |-> << >>, done |-> FALSE]

\* Mutant: every backslash is dropped, escaped or not.
Unescape_step_drops_every_backslash(u) ==
    IF u.inner = << >>
    THEN [u EXCEPT !.escaped = FALSE, !.done = TRUE]
    ELSE LET c == Head(u.inner)
         IN  IF c = "\\"
             THEN [u EXCEPT !.inner = Tail(u.inner), !.escaped = TRUE]
             ELSE [u EXCEPT !.inner = Tail(u.inner), !.escaped = FALSE,
                            !.out = Append(u.out, c)]

\* One iteration of the loop of Unescape::next.
Unescape_step(u) ==
    IF u.inner = << >>
    THEN \* self.inner.next()? returns None
         [u EXCEPT !.escaped = FALSE, !.done = TRUE]
    ELSE LET c == Head(u.inner)
         IN  IF ~u.escaped /\ c = "\\"
             THEN [u EXCEPT !.inner = Tail(u.inner), !.escaped = TRUE]
             ELSE [u EXCEPT !.inner = Tail(u.inner), !.escaped = FALSE,
                            !.out = Append(u.out, c)]

RECURSIVE Unescape_collect(_)
Unescape_collect(u) == IF u.done THEN u.out ELSE Unescape_collect(Unescape_step(u))

\* unescape(chars).collect()
unescape(chars) == Unescape_collect(Unescape(chars))

(***************************************************************************)
(* src/dotenv/expand.rs: Expand.  The iterator is its remaining input, its *)
(* State (with the fields of the variant it is in), the characters it has  *)
(* returned so far and the names handed to on_expand so far.               *)
(***************************************************************************)
Expand(chars) ==
    [inner |-> chars, state |-> "NotExpanding", value |-> << >>, name |-> << >>,
     invalid |-> FALSE, out |-> << >>, expanded |-> << >>, done |-> FALSE]

HasNext(e) == e.inner /= << >>
Peek(e) == Head(e.inner)

\* State::NotExpanding
NotExpanding_step(e) ==
    IF ~HasNext(e) THEN [e EXCEPT !.done = TRUE]
    ELSE IF Peek(e) = "$"
    THEN [e EXCEPT !.inner = Tail(e.inner), !.state = "StartExpansion"]
    ELSE IF Peek(e) = "\\"
    THEN [e EXCEPT !.inner = Tail(e.inner), !.state = "Escape"]
    ELSE [e EXCEPT !.inner = Tail(e.inner), !.out = Append(e.out, Peek(e))]

\* Escape_step that leaves the character after the backslash to the
\* scanner: only the backslash is buffered.
Escape_step_keeps_scanning(e) ==
    [e EXCEPT !.state = "Buffered", !.value = << "\\" >>]

\* State::Escape
Escape_step(e) ==
    \* Keep the backslashes so they can be removed by the caller
    IF HasNext(e)
    THEN [e EXCEPT !.inner = Tail(e.inner), !.state = "Buffered",
                   !.value = << "\\", Peek(e) >>]
    ELSE [e EXCEPT !.state = "Buffered", !.value = << "\\" >>]

\* Mutant: an empty buffer is not left.
Buffered_step_stays(e) ==
    IF e.value /= << >>
    THEN [e EXCEPT !.value = Tail(e.value), !.out = Append(e.out, Head(e.value))]
    ELSE e

\* Buffered_step with the buffer handed back to the scanner: the buffered
\* characters are read again as input.
Buffered_step_rescans(e) ==
    IF e.value /= << >>
    THEN [e EXCEPT !.inner = e.value \o e.inner, !.value = << >>,
                   !.state = "NotExpanding"]
    ELSE [e EXCEPT !.state = "NotExpanding"]

\* State::Buffered
Buffered_step(e) ==
    IF e.value /= << >>
    THEN [e EXCEPT !.value = Tail(e.value), !.out = Append(e.out, Head(e.value))]
    ELSE [e EXCEPT !.state = "NotExpanding"]

\* Mutant: a `$` that starts no expansion is dropped.
StartExpansion_step_drops_dollar(e) ==
    IF HasNext(e) /\ Peek(e) = "{"
    THEN [e EXCEPT !.inner = Tail(e.inner), !.state = "BracedExpansion",
                   !.name = << >>, !.invalid = FALSE]
    ELSE IF HasNext(e) /\ is_name_start(Peek(e))
    THEN [e EXCEPT !.inner = Tail(e.inner), !.state = "UnbracedExpansion",
                   !.name = << Peek(e) >>]
    ELSE [e EXCEPT !.state = "NotExpanding"]

\* State::StartExpansion
StartExpansion_step(e) ==
    IF HasNext(e) /\ Peek(e) = "{"
    THEN [e EXCEPT !.inner = Tail(e.inner), !.state = "BracedExpansion",
                   !.name = << >>, !.invalid = FALSE]
    ELSE IF HasNext(e) /\ is_name_start(Peek(e))
    THEN [e EXCEPT !.inner = Tail(e.inner), !.state = "UnbracedExpansion",
                   !.name = << Peek(e) >>]
    ELSE \* Lone '$' - not expanding
         [e EXCEPT !.state = "NotExpanding", !.out = Append(e.out, "$")]

\* Mutant: the name between the braces is looked up even when a character
\* that is not a name character was read between them.
BracedExpansion_step_ignores_invalid(e, parameters) ==
    IF HasNext(e) /\ is_name_start(Peek(e))
    THEN [e EXCEPT !.inner = Tail(e.inner), !.name = Append(e.name, Peek(e))]
    ELSE IF HasNext(e) /\ is_ascii_digit(Peek(e))
    THEN [e EXCEPT !.inner = Tail(e.inner), !.name = Append(e.name, Peek(e))]
    ELSE IF HasNext(e) /\ Peek(e) = "}"
    THEN IF e.name \in DOMAIN parameters
         THEN [e EXCEPT !.inner = Tail(e.inner), !.state = "Buffered",
                        !.value = parameters[e.name],
                        !.expanded = Append(e.expanded, e.name)]
         ELSE [e EXCEPT !.inner = Tail(e.inner), !.state = "NotExpanding"]
    ELSE IF HasNext(e)
    THEN [e EXCEPT !.inner = Tail(e.inner), !.invalid = TRUE]
    ELSE [e EXCEPT !.state = "Buffered", !.value = << "$", "{" >> \o e.name]

\* State::BracedExpansion
BracedExpansion_step(e, parameters) ==
    IF HasNext(e) /\ is_name_start(Peek(e))
    THEN [e EXCEPT !.inner = Tail(e.inner), !.name = Append(e.name, Peek(e))]
    ELSE IF HasNext(e) /\ is_ascii_digit(Peek(e))
    THEN [e EXCEPT !.inner = Tail(e.inner), !.name = Append(e.name, Peek(e))]
    ELSE IF HasNext(e) /\ Peek(e) = "}"
    THEN IF ~e.invalid /\ e.name \in DOMAIN parameters
         THEN [e EXCEPT !.inner = Tail(e.inner), !.state = "Buffered",
                        !.value = parameters[e.name],
                        !.expanded = Append(e.expanded, e.name)]
         ELSE \* Parameter not defined (or valid) - skip it
              [e EXCEPT !.inner = Tail(e.inner), !.state = "NotExpanding"]
    ELSE IF HasNext(e)
    THEN \* Invalid character
         [e EXCEPT !.inner = Tail(e.inner), !.invalid = TRUE]
    ELSE \* End of input - return everything we matched
         [e EXCEPT !.state = "Buffered", !.value = << "$", "{" >> \o e.name]

\* Mutant: the name is the one character that follows the `$`.
UnbracedExpansion_step_one_char(e, parameters) ==
    IF e.name \in DOMAIN parameters
    THEN [e EXCEPT !.state = "Buffered", !.value = parameters[e.name],
                   !.expanded = Append(e.expanded, e.name)]
    ELSE [e EXCEPT !.state = "NotExpanding"]

\* State::UnbracedExpansion
UnbracedExpansion_step(e, parameters) ==
    IF HasNext(e) /\ (is_name_start(Peek(e)) \/ is_ascii_digit(Peek(e)))
    THEN [e EXCEPT !.inner = Tail(e.inner), !.name = Append(e.name, Peek(e))]
    ELSE IF e.name \in DOMAIN parameters
    THEN [e EXCEPT !.state = "Buffered", !.value = parameters[e.name],
                   !.expanded = Append(e.expanded, e.name)]
    ELSE \* Parameter not defined - skip it
         [e EXCEPT !.state = "NotExpanding"]

\* One iteration of the loop of Expand::next.
Expand_step(e, parameters) ==
    CASE e.state = "NotExpanding" -> NotExpanding_step(e)
      [] e.state = "Escape" -> Escape_step(e)
      [] e.state = "Buffered" -> Buffered_step(e)
      [] e.state = "StartExpansion" -> StartExpansion_step(e)
      [] e.state = "BracedExpansion" -> BracedExpansion_step(e, parameters)
      [] e.state = "UnbracedExpansion" -> UnbracedExpansion_step(e, parameters)

RECURSIVE Expand_collect(_, _)
Expand_collect(e, parameters) ==
    IF e.done THEN e ELSE Expand_collect(Expand_step(e, parameters), parameters)

\* expand(chars, parameters).collect(): the characters returned.
expand(chars, parameters) == Expand_collect(Expand(chars), parameters).out

\* The names on_expand was called with while the iterator was drained.
expand_names(chars, parameters) ==
    LET e == Expand_collect(Expand(chars), parameters)
    IN  {e.expanded[i] : i \in 1..Len(e.expanded)}

(***************************************************************************)
(* src/dotenv/file.rs: escape                                              *)
(***************************************************************************)
\* const ESCAPED, in the order of the slice.
ESCAPED == << "\\", "$", "\"", "'" >>

EscapedChars == {ESCAPED[i] : i \in 1..Len(ESCAPED)}

RECURSIVE escape_fold(_, _)
\* ESCAPED.iter().fold(value, |value, &c| value.replace(c, "\\{c}")), from
\* the i-th character of ESCAPED on.
escape_fold(value, i) ==
    IF i > Len(ESCAPED) THEN value
    ELSE escape_fold(str_replace(value, ESCAPED[i], << "\\", ESCAPED[i] >>), i + 1)

RECURSIVE escape_fold_backslash_last(_, _)
escape_fold_backslash_last(value, i) ==
    IF i < 1 THEN value
    ELSE escape_fold_backslash_last(
             str_replace(value, ESCAPED[i], << "\\", ESCAPED[i] >>), i - 1)

\* Mutant: the characters are escaped in the reverse order, the backslash
\* last, so the backslashes added for the other three are escaped again.
escape_backslash_last(value) ==
    IF str_contains(value, EscapedChars) \/ value /= trim(value)
    THEN << "\"" >> \o escape_fold_backslash_last(value, Len(ESCAPED)) \o << "\"" >>
    ELSE value

\* Mutant: a value is quoted only when it holds a character to escape.
escape_no_trim_check(value) ==
    IF str_contains(value, EscapedChars)
    THEN << "\"" >> \o escape_fold(value, 1) \o << "\"" >>
    ELSE value

escape(value) ==
    IF str_contains(value, EscapedChars) \/ value /= trim(value)
    THEN << "\"" >> \o escape_fold(value, 1) \o << "\"" >>
    ELSE value

(***************************************************************************)
(* src/dotenv/parse.rs: the three value forms of var_definition.  Each     *)
(* gives the resolved value and the names expanded while resolving it.     *)
(***************************************************************************)
\* unquote(s, quote): Option<&str>
unquote(s, quote) ==
    IF Len(s) >= 1 /\ s[1] = quote /\ Len(s) >= 2 /\ s[Len(s)] = quote
    THEN Some(SubSeq(s, 2, Len(s) - 1))
    ELSE None

\* Rule::var_value_uq
var_value_uq(text, params) ==
    [value |-> unescape(expand(text, params)),
     expanded |-> expand_names(text, params)]

\* Rule::var_value_sq
var_value_sq(text) ==
    [value |-> Unwrap(unquote(text, "'")), expanded |-> {}]

\* Rule::var_value_dq
var_value_dq(text, params) ==
    LET processed == Unwrap(unquote(text, "\""))
    IN  [value |-> unescape(expand(processed, params)),
         expanded |-> expand_names(processed, params)]

(***************************************************************************)
(* grammars/dotenv.pest: DotenvParser.  The grammar file is not among the  *)
(* sources; it is modelled from the specification and from the spans and   *)
(* values the tests of src/dotenv/parse.rs expect:                         *)
(*   - a file is a sequence of lines, each blank, a comment, or            *)
(*     [export ]NAME=VALUE followed by an optional trailing comment;       *)
(*   - a single-quoted value runs to the next single quote, a              *)
(*     double-quoted value to the next double quote that no backslash      *)
(*     escapes; both end on their line, and their span holds the quotes;   *)
(*   - an unquoted value runs to the end of the line, less the whitespace  *)
(*     that ends the line or precedes a trailing comment: whitespace       *)
(*     inside the value belongs to it, and so does a `#` that follows no   *)
(*     whitespace.                                                         *)
(* Positions are indexes into the source, from 1.                          *)
(***************************************************************************)
BlankChars == {" ", "\t"}

AtEol(s, i) == i > Len(s) \/ s[i] = "\n"

RECURSIVE skip_blank(_, _)
skip_blank(s, i) ==
    IF i <= Len(s) /\ s[i] \in BlankChars THEN skip_blank(s, i + 1) ELSE i

RECURSIVE line_end(_, _)
\* The position of the newline that ends the line holding i, or Len(s) + 1.
line_end(s, i) == IF AtEol(s, i) THEN i ELSE line_end(s, i + 1)

starts_with(s, i, w) ==
    i + Len(w) - 1 <= Len(s) /\ SubSeq(s, i, i + Len(w) - 1) = w

RECURSIVE name_end(_, _)
\* The position after the name characters that start at i.
name_end(s, i) ==
    IF i <= Len(s) /\ (is_name_start(s[i]) \/ is_ascii_digit(s[i]))
    THEN name_end(s, i + 1) ELSE i

RECURSIVE sq_close(_, _)
\* The position of the single quote that closes the value, or 0.
sq_close(s, i) ==
    IF AtEol(s, i) THEN 0
    ELSE IF s[i] = "'" THEN i
    ELSE sq_close(s, i + 1)

RECURSIVE dq_close(_, _)
\* The position of the double quote that closes the value, or 0.
dq_close(s, i) ==
    IF AtEol(s, i) THEN 0
    ELSE IF s[i] = "\"" THEN i
    ELSE IF s[i] = "\\" THEN (IF AtEol(s, i + 1) THEN 0 ELSE dq_close(s, i + 2))
    ELSE dq_close(s, i + 1)

RECURSIVE uq_end(_, _)
\* The position after the last character of the unquoted value.
uq_end(s, i) ==
    IF AtEol(s, i) THEN i
    ELSE IF s[i] \in BlankChars
    THEN LET j == skip_blank(s, i)
         IN  IF AtEol(s, j) \/ s[j] = "#" THEN i ELSE uq_end(s, j)
    ELSE IF s[i] = "\\" /\ ~AtEol(s, i + 1) THEN uq_end(s, i + 2)
    ELSE uq_end(s, i + 1)

\* What may follow a value on its line: blanks, then a comment or nothing.
rest_of_line_ok(s, i) ==
    LET j == skip_blank(s, i) IN AtEol(s, j) \/ s[j] = "#"

EXPORT == << "e", "x", "p", "o", "r", "t" >>

\* The var_definition that starts at i (after the blanks that lead the
\* line): Some(pair) with the name, the rule of the value and the span of
\* the value, or None when the line is malformed.
var_definition_at(s, i) ==
    LET after_export == skip_blank(s, i + Len(EXPORT))
        n == IF starts_with(s, i, EXPORT) /\ after_export > i + Len(EXPORT)
             THEN after_export ELSE i
        e == name_end(s, n)
        v == e + 1
    IN  IF ~(n <= Len(s) /\ is_name_start(s[n])) THEN None
        ELSE IF ~(e <= Len(s) /\ s[e] = "=") THEN None
        ELSE IF v <= Len(s) /\ s[v] = "'"
        THEN LET c == sq_close(s, v + 1)
             IN  IF c = 0 \/ ~rest_of_line_ok(s, c + 1) THEN None
                 ELSE Some([name |-> SubSeq(s, n, e - 1), rule |-> "var_value_sq",
                            span |-> [start |-> v - 1, end |-> c]])
        ELSE IF v <= Len(s) /\ s[v] = "\""
        THEN LET c == dq_close(s, v + 1)
             IN  IF c = 0 \/ ~rest_of_line_ok(s, c + 1) THEN None
                 ELSE Some([name |-> SubSeq(s, n, e - 1), rule |-> "var_value_dq",
                            span |-> [start |-> v - 1, end |-> c]])
        ELSE Some([name |-> SubSeq(s, n, e - 1), rule |-> "var_value_uq",
                   span |-> [start |-> v - 1, end |-> uq_end(s, v) - 1]])

RECURSIVE dotenv_from(_, _, _)
\* The pairs of the lines from position i on, after the pairs found so far.
dotenv_from(s, i, pairs) ==
    LET j == skip_blank(s, i)
        pair == var_definition_at(s, j)
    IN  IF i > Len(s) THEN Some(pairs)
        ELSE IF AtEol(s, j) \/ s[j] = "#" THEN dotenv_from(s, line_end(s, j) + 1, pairs)
        ELSE IF IsNone(pair) THEN None
        ELSE dotenv_from(s, line_end(s, Unwrap(pair).span.end + 1) + 1,
                         Append(pairs, Unwrap(pair)))

\* DotenvParser::parse(Rule::dotenv, source): the var_definition pairs in
\* source order, or None for a syntax error.
DotenvParser_parse(source) == dotenv_from(source, 1, << >>)

(***************************************************************************)
(* src/dotenv/parse.rs: DotenvFile::parse and var_definition               *)
(***************************************************************************)
\* var_definition: the name, the resolved value with its span, and the
\* names added to `referenced` through on_expand.
var_definition(source, pair, params) ==
    LET text == Slice(source, pair.span.start, pair.span.end)
        processed == CASE pair.rule = "var_value_uq" -> var_value_uq(text, params)
                       [] pair.rule = "var_value_sq" -> var_value_sq(text)
                       [] pair.rule = "var_value_dq" -> var_value_dq(text, params)
    IN  [name |-> pair.name, value |-> processed.value, span |-> pair.span,
         expanded |-> processed.expanded]

\* DotenvFile::default()
DotenvFile_default ==
    [source |-> << >>, parameters |-> << >>, value_spans |-> << >>,
     referenced |-> {}, last_modified |-> None]

\* Mutant: the name is removed from `referenced` before its value is
\* resolved, so a definition that expands its own name leaves it there.
parse_definition_removes_first(file, pair) ==
    LET def == var_definition(file.source, pair, file.parameters)
    IN  [file EXCEPT
            !.referenced = (file.referenced \ {def.name}) \cup def.expanded,
            !.parameters = (def.name :> def.value) @@ file.parameters,
            !.value_spans = (def.name :> def.span) @@ file.value_spans]

\* Mutant: every value is resolved with no parameter defined.
parse_definition_no_parameters(file, pair) ==
    LET def == var_definition(file.source, pair, << >>)
    IN  [file EXCEPT
            !.referenced = (file.referenced \cup def.expanded) \ {def.name},
            !.parameters = (def.name :> def.value) @@ file.parameters,
            !.value_spans = (def.name :> def.span) @@ file.value_spans]

\* Mutant: a name that is expanded loses its span.
parse_definition_drops_spans(file, pair) ==
    LET def == var_definition(file.source, pair, file.parameters)
    IN  [file EXCEPT
            !.referenced = (file.referenced \cup def.expanded) \ {def.name},
            !.parameters = (def.name :> def.value) @@ file.parameters,
            !.value_spans =
                [n \in (DOMAIN file.value_spans \ def.expanded) \cup {def.name} |->
                    IF n = def.name THEN def.span ELSE file.value_spans[n]]]

\* Mutant: the name that is defined is recorded in `referenced`, on top of
\* the names its value expands.
parse_definition_marks_referrer(file, pair) ==
    LET def == var_definition(file.source, pair, file.parameters)
    IN  [file EXCEPT
            !.referenced = (file.referenced \cup def.expanded \cup {def.name}),
            !.parameters = (def.name :> def.value) @@ file.parameters,
            !.value_spans = (def.name :> def.span) @@ file.value_spans]

\* Mutant: the name that is defined is not removed from `referenced`.
parse_definition_never_removes(file, pair) ==
    LET def == var_definition(file.source, pair, file.parameters)
    IN  [file EXCEPT
            !.referenced = file.referenced \cup def.expanded,
            !.parameters = (def.name :> def.value) @@ file.parameters,
            !.value_spans = (def.name :> def.span) @@ file.value_spans]

\* One iteration of the loop of DotenvFile::parse, for a var_definition.
parse_definition(file, pair) ==
    LET def == var_definition(file.source, pair, file.parameters)
    IN  [file EXCEPT
            \* New definition (even if self-referencing)
            !.referenced = (file.referenced \cup def.expanded) \ {def.name},
            !.parameters = (def.name :> def.value) @@ file.parameters,
            !.value_spans = (def.name :> def.span) @@ file.value_spans]

RECURSIVE parse_pairs(_, _, _)
\* The loop of DotenvFile::parse from the i-th pair on.
parse_pairs(pairs, i, file) ==
    IF i > Len(pairs) THEN file
    ELSE parse_pairs(pairs, i + 1, parse_definition(file, pairs[i]))

\* DotenvFile::parse: Some(file), or None for an error.
parse(source) ==
    LET pairs == DotenvParser_parse(source)
    IN  IF IsNone(pairs) THEN None
        ELSE Some(parse_pairs(Unwrap(pairs), 1,
                              [DotenvFile_default EXCEPT !.source = source]))

(***************************************************************************)
(* src/dotenv/file.rs: DotenvFile::replace                                 *)
(***************************************************************************)

\* replaced_names without the test of `referenced`: every name that has a
\* span is replaced in place.
replaced_names_ignores_referenced(self, repl) ==
    {name \in DOMAIN repl : name \in DOMAIN self.value_spans}

\* The names of `replaced`: the replacements made in place.
replaced_names(self, repl) ==
    {name \in DOMAIN repl :
        name \notin self.referenced /\ name \in DOMAIN self.value_spans}

\* The names of `added`: the replacements appended to the file.
added_names(self, repl) == DOMAIN repl \ replaced_names(self, repl)

RECURSIVE sort_by_reverse_end(_, _)
\* replaced.sort_by_key(|(span, _)| Reverse(span.end))
sort_by_reverse_end(self, names) ==
    IF names = {} THEN << >>
    ELSE LET first == CHOOSE n \in names :
                          \A m \in names :
                              self.value_spans[m].end <= self.value_spans[n].end
         IN  << first >> \o sort_by_reverse_end(self, names \ {first})

RECURSIVE replace_in_place_on_source(_, _, _, _, _)
\* replace_in_place with every edit made on the source, not on the text
\* the edits before it left.
replace_in_place_on_source(text, self, repl, order, i) ==
    IF i > Len(order) THEN text
    ELSE replace_in_place_on_source(
             replace_range(self.source, self.value_spans[order[i]],
                           escape(repl[order[i]])),
             self, repl, order, i + 1)

RECURSIVE replace_in_place(_, _, _, _, _)
\* for (span, value) in replaced { content.replace_range(span, &escape(&value)) }
replace_in_place(text, self, repl, order, i) ==
    IF i > Len(order) THEN text
    ELSE replace_in_place(
             replace_range(text, self.value_spans[order[i]], escape(repl[order[i]])),
             self, repl, order, i + 1)

RECURSIVE append_added_raw(_, _, _, _)
\* Mutant: the appended values are written as they are, without escape.
append_added_raw(text, repl, added, i) ==
    IF i > Len(added) THEN text
    ELSE append_added_raw(text \o added[i] \o << "=" >> \o repl[added[i]] \o << "\n" >>,
                          repl, added, i + 1)

RECURSIVE append_added(_, _, _, _)
\* for (name, value) in added { writeln!(content, "{name}={value}") }
append_added(text, repl, added, i) ==
    IF i > Len(added) THEN text
    ELSE append_added(text \o added[i] \o << "=" >> \o escape(repl[added[i]]) \o << "\n" >>,
                      repl, added, i + 1)

\* Mutant: the text is ended by a newline even when nothing is appended.
replace_always_newline(self, repl, added) ==
    LET replaced == sort_by_reverse_end(self, replaced_names(self, repl))
        in_place == replace_in_place(self.source, self, repl, replaced, 1)
        with_newline ==
            IF in_place /= << >> /\ in_place[Len(in_place)] /= "\n"
            THEN Append(in_place, "\n") ELSE in_place
    IN  append_added(with_newline, repl, added, 1)

\* DotenvFile::replace.  `added` is the Vec of the appended names, in the
\* order the iteration over the HashMap `replacements` yields them.
replace(self, repl, added) ==
    LET replaced == sort_by_reverse_end(self, replaced_names(self, repl))
        in_place == replace_in_place(self.source, self, repl, replaced, 1)
        with_newline ==
            IF in_place /= << >> /\ in_place[Len(in_place)] /= "\n"
            THEN Append(in_place, "\n") ELSE in_place
    IN  IF added = << >> THEN in_place
        ELSE append_added(with_newline, repl, added, 1)

\* The orders in which the iteration over a HashMap can yield the names.
Orders(names) ==
    {order \in [1..Cardinality(names) -> names] :
        \A i, j \in 1..Cardinality(names) : order[i] = order[j] => i = j}

(***************************************************************************)
(* The sync commands (src/commands/dotenv.rs, src/commands/file.rs).       *)
(* A file on the local disk is Option<[content, modified]>; the Key Vault  *)
(* maps a secret name to Option<<<value, Option<modified>>>>, the modified  *)
(* time being `updated.or(created)`; the blob container maps a blob name   *)
(* to Option<[content, modified]>, the modified time being the `modified`  *)
(* metadata or else the blob's last-modified time.                         *)
(***************************************************************************)
LocalFile(text, modified) == [content |-> text, modified |-> modified]

\* Self { last_modified, ..dotenv } on the result of Self::parse(source)?
with_last_modified(parsed, modified) ==
    IF IsNone(parsed) THEN None
    ELSE Some(Some([Unwrap(parsed) EXCEPT !.last_modified = Some(modified)]))

\* DotenvFile::from_path_exists: Some(None) when the file does not exist,
\* Some(Some(file)) when it is read and parsed, None for an error.
from_path_exists(file) ==
    IF IsNone(file) THEN Some(None)
    ELSE with_last_modified(parse(Unwrap(file).content), Unwrap(file).modified)

\* vars_to_sync with the names of the dotenv file added to those of the
\* template.
vars_to_sync_with_local(template, dotenv_file) ==
    IF IsSome(template)
    THEN Some(DOMAIN Unwrap(template).parameters
              \cup (IF IsSome(dotenv_file) THEN DOMAIN Unwrap(dotenv_file).parameters
                    ELSE {}))
    ELSE IF IsSome(dotenv_file) THEN Some(DOMAIN Unwrap(dotenv_file).parameters)
    ELSE None

\* The names to synchronize: those of the template, or else those of the
\* dotenv file; None when there is neither.
vars_to_sync(template, dotenv_file) ==
    IF IsSome(template) THEN Some(DOMAIN Unwrap(template).parameters)
    ELSE IF IsSome(dotenv_file) THEN Some(DOMAIN Unwrap(dotenv_file).parameters)
    ELSE None

\* name.replace('_', "-"): the secret that holds a variable.
secret_name(name) == str_replace(name, "_", << "-" >>)

\* The variable a fetched secret is recorded under: the last but one
\* segment of its id, with '-' replaced by '_'.
secret_variable(name) == str_replace(name, "-", << "_" >>)

\* get_remote_vars: the map from variable name to <<value, Option<modified>>>.
\* Under PushAlways no secret is fetched; a secret that is not found is left
\* out.
get_remote_vars(mode, secrets, var_names) ==
    IF mode = "PushAlways" THEN << >>
    ELSE LET fetched == {secret_name(n) : n \in var_names}
             found == {k \in fetched : k \in DOMAIN secrets /\ IsSome(secrets[k])}
         IN  [v \in {secret_variable(k) : k \in found} |->
                 Unwrap(secrets[CHOOSE k \in found : secret_variable(k) = v])]

\* HashMap::get
map_get(map, key) == IF key \in DOMAIN map THEN Some(map[key]) ELSE None

\* The order of char on the characters of the names of the model.
CharOrder == << "-", "A", "B", "_", "a", "b" >>

char_rank(c) == CHOOSE i \in 1..Len(CharOrder) : CharOrder[i] = c

RECURSIVE str_cmp(_, _)
\* Ord::cmp on strings: -1, 0 or 1.
str_cmp(a, b) ==
    IF a = << >> /\ b = << >> THEN 0
    ELSE IF a = << >> THEN -1
    ELSE IF b = << >> THEN 1
    ELSE IF Head(a) = Head(b) THEN str_cmp(Tail(a), Tail(b))
    ELSE IF char_rank(Head(a)) < char_rank(Head(b)) THEN -1 ELSE 1

\* The order of the variants of VarAction and of SyncType in a sort.
kind_rank(kind) == CASE kind = "Push" -> 0 [] kind = "Pull" -> 1 [] kind = "Skip" -> 2

\* impl PartialOrd for VarAction: -1, 0 or 1.
VarAction_partial_cmp(a, b) ==
    IF a.kind = b.kind THEN str_cmp(a.name, b.name)
    ELSE IF kind_rank(a.kind) < kind_rank(b.kind) THEN -1 ELSE 1

\* The reasons of SyncType::Skip, in the order of str.
ReasonOrder == << "not found", "nothing to pull", "nothing to push",
                  "pull disabled", "push disabled", "unchanged" >>

reason_rank(r) == CHOOSE i \in 1..Len(ReasonOrder) : ReasonOrder[i] = r

\* #[derive(Ord)] on SyncType<PushFile, PullFile, Context>, the three
\* payloads being ordered by blob name: -1, 0 or 1.
SyncType_cmp(a, b) ==
    IF a.kind /= b.kind
    THEN IF kind_rank(a.kind) < kind_rank(b.kind) THEN -1 ELSE 1
    ELSE IF a.kind = "Skip" /\ a.reason /= b.reason
    THEN IF reason_rank(a.reason) < reason_rank(b.reason) THEN -1 ELSE 1
    ELSE str_cmp(a.name, b.name)

RECURSIVE sort_var_actions(_)
\* actions.sort_unstable_by(|a, b| a.partial_cmp(b).unwrap_or(Ordering::Equal))
sort_var_actions(actions) ==
    IF actions = {} THEN << >>
    ELSE LET first == CHOOSE a \in actions :
                          \A b \in actions : VarAction_partial_cmp(a, b) <= 0
         IN  << first >> \o sort_var_actions(actions \ {first})

RECURSIVE sort_file_actions(_)
\* actions.sort()
sort_file_actions(actions) ==
    IF actions = {} THEN << >>
    ELSE LET first == CHOOSE a \in actions :
                          \A b \in actions : SyncType_cmp(a, b) <= 0
         IN  << first >> \o sort_file_actions(actions \ {first})

\* A VarAction with the name it carries.
named(name, action) ==
    [name |-> name, kind |-> action.kind, value |-> action.value,
     reason |-> action.reason]

\* The actions of the dotenv command: one VarAction for each name to
\* synchronize, sorted.
var_actions(mode, dotenv_file, remote_vars, var_names) ==
    LET local_mod == IF IsSome(dotenv_file) THEN Unwrap(dotenv_file).last_modified
                     ELSE None
        local_val(name) == IF IsSome(dotenv_file)
                           THEN map_get(Unwrap(dotenv_file).parameters, name)
                           ELSE None
    IN  sort_var_actions(
            {named(name, execute_var_action(mode, local_val(name),
                                            map_get(remote_vars, name), local_mod))
                : name \in var_names})

\* The blob name of a path under the pattern "#name#": the file name.
blob_name_of(path) == path

\* A SyncType whose payload (PushFile, PullFile or Context) holds the blob
\* name.
in_context(name, sync) ==
    [name |-> name, kind |-> sync.kind, modified |-> sync.modified,
     reason |-> sync.reason]

\* get_file_action: the SyncType of one path, from the modified time of the
\* local file and that of the downloaded blob.
get_file_action(mode, file, blob, path) ==
    LET local_mod == IF IsSome(file) THEN Some(Unwrap(file).modified) ELSE None
        remote_mod == IF IsSome(blob) THEN Some(Unwrap(blob).modified) ELSE None
    IN  in_context(blob_name_of(path), from_modified(mode, local_mod, remote_mod))

\* pull_map with room for one value: only the first Pull of the list is
\* kept.
pull_map_first(actions) ==
    LET pulled == {i \in DOMAIN actions : actions[i].kind = "Pull"}
        first == {i \in pulled : \A j \in pulled : i <= j}
    IN  [name \in {actions[i].name : i \in first} |->
            Unwrap(actions[CHOOSE i \in first : actions[i].name = name].value)]

\* The values of the Pull actions: the map handed to DotenvFile::replace.
pull_map(actions) ==
    LET pulled == {i \in DOMAIN actions : actions[i].kind = "Pull"}
    IN  [name \in {actions[i].name : i \in pulled} |->
            Unwrap(actions[CHOOSE i \in pulled : actions[i].name = name].value)]

\* all(|action| matches!(action, Skip { .. }))
unchanged(actions) == \A i \in DOMAIN actions : actions[i].kind = "Skip"

(***************************************************************************)
(* SpecDecide: the two decision procedures on the same inputs.  Init draws *)
(* the sync mode, the two optional values and the two optional timestamps; *)
(* FromModified applies SyncType::from_modified to the timestamps, and     *)
(* ExecuteVarAction applies the per-variable decision of the dotenv        *)
(* command to the values and the timestamps.                               *)
(***************************************************************************)
Values == {<<"x">>, <<"y">>}

Option(S) == {None} \cup {Some(x) : x \in S}

\* The secret the Key Vault holds for the variable: its value with its
\* `updated.or(created)` attribute.
secret == IF IsSome(remote_value) THEN Some(<<Unwrap(remote_value), remote_modified>>)
          ELSE None

\* The entry of remote_vars for the variable.
remote_var == get_remote_var(sync_mode, secret)

\* The variables of the decision procedures, while another part is checked:
\* no mode is handed to them.
DecideIdle ==
    /\ sync_mode = "idle"
    /\ local_value = None
    /\ remote_value = None
    /\ local_modified = None
    /\ remote_modified = None
    /\ sync_type = None
    /\ var_action = None

\* The variables of escape, while another part is checked.
EscapeIdle ==
    /\ new_value = << >>
    /\ known = << >>
    /\ escaped = None
    /\ read_back = None

\* The variables of the dotenv file, while another part is checked.
FileIdle ==
    /\ dotenv = DotenvFile_default
    /\ replacements = << >>
    /\ content = None
    /\ reparsed = None
    /\ rewritten = None

\* The names of the variables and the paths of the files of a run.
Names == { << "A" >>, << "B" >> }

FilePaths == { << "a" >>, << "b" >> }

SecretNames == {secret_name(n) : n \in Names}

BlobNames == {blob_name_of(p) : p \in FilePaths}

\* The variables of a run, while another part is checked: no command is
\* started.
RunIdle ==
    /\ options = [command |-> "dotenv", sync_mode |-> "Sync", check_only |-> FALSE,
                  no_confirm |-> FALSE, no_template |-> FALSE]
    /\ disk = [dotenv |-> None, template |-> None, files |-> [p \in FilePaths |-> None]]
    /\ store = [secrets |-> [k \in SecretNames |-> None],
                 blobs |-> [k \in BlobNames |-> None]]
    /\ run = [pc |-> "idle", dotenv |-> None, names |-> {}, opened |-> << >>,
              awaiting |-> {}, responses |-> << >>, actions |-> << >>,
              pending |-> {}, started |-> {}, result |-> None,
              status |-> None]
    /\ log = << >>

\* The variables of a parse, while another part is checked.
ParseIdle ==
    parsing = [pc |-> "idle", pairs |-> << >>, file |-> DotenvFile_default,
               defined |-> << >>]

\* The variables of an expansion, while another part is checked.
ExpandIdle ==
    /\ expand_input = << >>
    /\ expand_parameters = << >>
    /\ expansion = [Expand(<< >>) EXCEPT !.done = TRUE]
    /\ expansion_steps = << >>
    /\ unescaping = [Unescape(<< >>) EXCEPT !.done = TRUE]

DecideInit ==
    /\ ParseIdle
    /\ ExpandIdle
    /\ EscapeIdle
    /\ FileIdle
    /\ RunIdle
    /\ sync_mode \in SyncMode
    /\ local_value \in Option(Values)
    /\ remote_value \in Option(Values)
    /\ local_modified \in Option(Times)
    /\ remote_modified \in Option(Times)
    /\ sync_type = None
    /\ var_action = None

FromModified ==
    /\ sync_mode \in SyncMode
    /\ sync_type = None
    /\ sync_type' = Some(from_modified(sync_mode, local_modified, remote_modified))
    /\ UNCHANGED << sync_mode, local_value, remote_value, local_modified,
                    remote_modified, var_action >>
    /\ UNCHANGED << escape_vars, file_vars, run_vars, parse_vars, expand_vars >>

ExecuteVarAction ==
    /\ sync_mode \in SyncMode
    /\ var_action = None
    /\ var_action' = Some(execute_var_action(sync_mode, local_value, remote_var,
                                             local_modified))
    /\ UNCHANGED << sync_mode, local_value, remote_value, local_modified,
                    remote_modified, sync_type >>
    /\ UNCHANGED << escape_vars, file_vars, run_vars, parse_vars, expand_vars >>

DecideNext == FromModified \/ ExecuteVarAction

SpecDecide == DecideInit /\ [][DecideNext]_vars

(***************************************************************************)
(* Claims about SyncType::from_modified                                    *)
(***************************************************************************)
BothPresent == IsSome(local_modified) /\ IsSome(remote_modified)
local == Unwrap(local_modified)
remote == Unwrap(remote_modified)
Decided == IsSome(sync_type)
decision == Unwrap(sync_type)

\* C1: with both timestamps present and less than one minute apart,
\* from_modified returns Skip "unchanged" under Sync, Push and Pull, Push
\* under PushAlways and Pull under PullAlways.
C1_WithinTolerance ==
    (Decided /\ BothPresent /\ Abs(local - remote) < Minute) =>
        /\ sync_mode \in {"Sync", "Push", "Pull"} =>
              (decision.kind = "Skip" /\ decision.reason = "unchanged")
        /\ sync_mode = "PushAlways" => decision.kind = "Push"
        /\ sync_mode = "PullAlways" => decision.kind = "Pull"

C1_Witness ==
    /\ Decided /\ BothPresent
    /\ local = remote + (Minute - 1)
    /\ sync_mode = "Pull"
    /\ decision.kind = "Skip"

\* C2: with both timestamps present and local later than remote by one
\* minute or more, from_modified returns Push with the local timestamp under
\* Sync, Push and PushAlways, Skip "pull disabled" under Pull, and Pull with
\* the remote timestamp under PullAlways.
C2_LocalNewer ==
    (Decided /\ BothPresent /\ local - remote >= Minute) =>
        /\ sync_mode \in {"Sync", "Push", "PushAlways"} =>
              decision = SyncType_Push(local)
        /\ sync_mode = "Pull" => decision = SyncType_Skip("pull disabled")
        /\ sync_mode = "PullAlways" => decision = SyncType_Pull(remote)

C2_Witness ==
    /\ Decided /\ BothPresent
    /\ local = remote + Minute
    /\ sync_mode = "PullAlways"
    /\ decision.kind = "Pull"

\* C3: with both timestamps present and remote later than local by one
\* minute or more, from_modified returns Pull with the remote timestamp
\* under Sync, Pull and PullAlways, Skip "push disabled" under Push, and Push
\* with the local timestamp under PushAlways.
C3_RemoteNewer ==
    (Decided /\ BothPresent /\ remote - local >= Minute) =>
        /\ sync_mode \in {"Sync", "Pull", "PullAlways"} =>
              decision = SyncType_Pull(remote)
        /\ sync_mode = "Push" => decision = SyncType_Skip("push disabled")
        /\ sync_mode = "PushAlways" => decision = SyncType_Push(local)

C3_Witness ==
    /\ Decided /\ BothPresent
    /\ remote = local + Minute
    /\ sync_mode = "PushAlways"
    /\ decision.kind = "Push"

\* C4: with at most one timestamp present: only local gives Push (local
\* timestamp) under Sync, Push and PushAlways, Skip "pull disabled" under
\* Pull and Skip "nothing to pull" under PullAlways; only remote gives Pull
\* (remote timestamp) under Sync, Pull and PullAlways, Skip "push disabled"
\* under Push and Skip "nothing to push" under PushAlways; neither gives
\* Skip "not found" under every mode.
C4_AtMostOne ==
    /\ (Decided /\ IsSome(local_modified) /\ IsNone(remote_modified)) =>
          /\ sync_mode \in {"Sync", "Push", "PushAlways"} =>
                decision = SyncType_Push(local)
          /\ sync_mode = "Pull" => decision = SyncType_Skip("pull disabled")
          /\ sync_mode = "PullAlways" => decision = SyncType_Skip("nothing to pull")
    /\ (Decided /\ IsNone(local_modified) /\ IsSome(remote_modified)) =>
          /\ sync_mode \in {"Sync", "Pull", "PullAlways"} =>
                decision = SyncType_Pull(remote)
          /\ sync_mode = "Push" => decision = SyncType_Skip("push disabled")
          /\ sync_mode = "PushAlways" => decision = SyncType_Skip("nothing to push")
    /\ (Decided /\ IsNone(local_modified) /\ IsNone(remote_modified)) =>
          decision = SyncType_Skip("not found")

C4_Witness ==
    /\ Decided
    /\ IsNone(local_modified) /\ IsSome(remote_modified)
    /\ sync_mode = "PushAlways"
    /\ decision.reason = "nothing to push"

(***************************************************************************)
(* Claims about the per-variable decision of the dotenv command            *)
(***************************************************************************)
VarDecided == IsSome(var_action)
action == Unwrap(var_action)
\* The value the command fetched for the variable, if any.
fetched_value == IF IsSome(remote_var) THEN Some(Unwrap(remote_var)[1]) ELSE None
BothValues == IsSome(local_value) /\ IsSome(fetched_value)

\* C6 as claimed: for a variable whose two values are present and differ and
\* whose two timestamps are known, the decision of the dotenv command is the
\* one from_modified returns (same kind, same reason).
C6_SameDecision ==
    (Decided /\ VarDecided /\ BothValues /\ local_value /= fetched_value
        /\ BothPresent) =>
        (action.kind = decision.kind /\ action.reason = decision.reason)

\* C6 amended: when the two timestamps are one minute or more apart, the
\* decision of the dotenv command has the kind of the one from_modified
\* returns; a Skip carries the opposite reason ("pull disabled" under Push,
\* "push disabled" under Pull).  Within one minute the dotenv command applies
\* no tolerance: it decides Pull when remote >= local and Push otherwise,
\* before the filter of the mode.
C6_SameKindBeyondTolerance ==
    (Decided /\ VarDecided /\ BothValues /\ local_value /= fetched_value
        /\ BothPresent) =>
        /\ Abs(local - remote) >= Minute =>
              /\ action.kind = decision.kind
              /\ (action.kind = "Skip" /\ sync_mode = "Push") =>
                    (action.reason = "pull disabled" /\ decision.reason = "push disabled")
              /\ (action.kind = "Skip" /\ sync_mode = "Pull") =>
                    (action.reason = "push disabled" /\ decision.reason = "pull disabled")
        /\ Abs(local - remote) < Minute =>
              action = CASE sync_mode = "Sync" ->
                              IF remote >= local THEN VarAction_Pull(Unwrap(fetched_value))
                              ELSE VarAction_Push(Unwrap(local_value))
                         [] sync_mode = "Push" ->
                              IF remote >= local THEN VarAction_Skip("pull disabled")
                              ELSE VarAction_Push(Unwrap(local_value))
                         [] sync_mode = "Pull" ->
                              IF remote >= local THEN VarAction_Pull(Unwrap(fetched_value))
                              ELSE VarAction_Skip("push disabled")
                         [] sync_mode = "PullAlways" ->
                              VarAction_Pull(Unwrap(fetched_value))

C6_Witness ==
    /\ Decided /\ VarDecided /\ BothValues /\ local_value /= fetched_value
    /\ BothPresent
    /\ remote = local + Minute
    /\ sync_mode = "Push"
    /\ action.kind = "Skip"

\* C7 as claimed: a variable whose local and fetched remote values are both
\* present and equal is decided Skip "unchanged" under every mode.
C7_EqualValuesSkip ==
    (VarDecided /\ BothValues /\ local_value = fetched_value) =>
        action = VarAction_Skip("unchanged")

\* C7 amended: such a variable is decided Skip "unchanged", whatever the two
\* timestamps are, under Sync, Push and Pull; under PullAlways it is decided
\* Pull of the remote value.
C7_EqualValuesSkipUnlessPullAlways ==
    (VarDecided /\ BothValues /\ local_value = fetched_value) =>
        /\ sync_mode \in {"Sync", "Push", "Pull"} =>
              action = VarAction_Skip("unchanged")
        /\ sync_mode = "PullAlways" =>
              action = VarAction_Pull(Unwrap(fetched_value))
        /\ sync_mode /= "PushAlways"

C7_Witness ==
    /\ VarDecided /\ BothValues /\ local_value = fetched_value
    /\ BothPresent /\ remote > local + Minute
    /\ sync_mode = "Sync"
    /\ action.reason = "unchanged"

(***************************************************************************)
(* SpecEscape: escape on every value of at most MaxValueLen characters,    *)
(* and the written form processed again as var_definition processes a      *)
(* value: as a double-quoted value when escape quoted it, as an unquoted   *)
(* value when escape left it bare.                                         *)
(***************************************************************************)
EscapeAlphabet == {"x", " ", "\n", "\\", "$", "\"", "'", "{"}

Strings(alphabet, n) == UNION {[1..k -> alphabet] : k \in 0..n}

\* The variables known when the written form is read back: none, or x.
EscapeParameters == {<< >>, (<<"x">> :> <<"y", "$">>)}

EscapeInit ==
    /\ ParseIdle
    /\ ExpandIdle
    /\ DecideIdle
    /\ FileIdle
    /\ RunIdle
    /\ new_value \in Strings(EscapeAlphabet, MaxValueLen)
    /\ known \in EscapeParameters
    /\ escaped = None
    /\ read_back = None

Escape ==
    /\ escaped = None
    /\ escaped' = Some(escape(new_value))
    /\ UNCHANGED << new_value, known, read_back >>
    /\ UNCHANGED << decide_vars, file_vars, run_vars, parse_vars, expand_vars >>

ReadBack ==
    /\ IsSome(escaped)
    /\ read_back = None
    /\ read_back' =
          LET written == Unwrap(escaped)
          IN  IF written /= << >> /\ Head(written) = "\""
              THEN Some(var_value_dq(written, known).value)
              ELSE Some(var_value_uq(written, known).value)
    /\ UNCHANGED << new_value, known, escaped >>
    /\ UNCHANGED << decide_vars, file_vars, run_vars, parse_vars, expand_vars >>

EscapeNext == Escape \/ ReadBack

SpecEscape == EscapeInit /\ [][EscapeNext]_vars

RECURSIVE each_escaped(_)
\* The value with one backslash put before each of the four characters.
each_escaped(v) ==
    IF v = << >> THEN << >>
    ELSE (IF Head(v) \in {"\\", "$", "\"", "'"} THEN << "\\", Head(v) >> ELSE << Head(v) >>)
         \o each_escaped(Tail(v))

NeedsQuotes(v) ==
    \/ \E i \in 1..Len(v) : v[i] \in {"\\", "$", "\"", "'"}
    \/ (v /= << >> /\ (v[1] \in White_Space \/ v[Len(v)] \in White_Space))

\* C10: escape(new_value) is the bare value if and only if the value holds none
\* of backslash, $, double quote, single quote and has no leading or
\* trailing whitespace; otherwise the written form is a double quote, the
\* value with one backslash before each of those four characters, and a
\* double quote, and expanding then unescaping the text between the quotes
\* gives the value back.
C10_EscapingLaw ==
    /\ IsSome(escaped) =>
          LET written == Unwrap(escaped)
          IN  /\ (written = new_value) <=> ~NeedsQuotes(new_value)
              /\ NeedsQuotes(new_value) =>
                    written = << "\"" >> \o each_escaped(new_value) \o << "\"" >>
    /\ (IsSome(read_back) /\ NeedsQuotes(new_value)) => Unwrap(read_back) = new_value

C10_Witness ==
    /\ IsSome(read_back)
    /\ new_value = << "\\", "$", "x", "'" >>
    /\ known /= << >>
    /\ Unwrap(read_back) = new_value

(***************************************************************************)
(* SpecReplace: a dotenv file of at most MaxLines lines is parsed, a map   *)
(* of replacements is handed to replace, and the text replace returns is   *)
(* parsed again.                                                           *)
(***************************************************************************)
Lines ==
    { << "A", "=", "x" >>,
      << "B", "=", "'", "y", " ", "z", "'" >>,
      << "B", "=", "\"", "$", "A", "\"" >>,
      << "A", "=", "$", "B" >>,
      << "#", " ", "c" >>,
      << "e", "x", "p", "o", "r", "t", " ", "B", "=", "y", " ", "#", "c" >>,
      << >> }

RECURSIVE join_lines(_)
\* The lines, separated by newlines.
join_lines(ls) ==
    IF ls = << >> THEN << >>
    ELSE IF Len(ls) = 1 THEN ls[1]
    ELSE ls[1] \o << "\n" >> \o join_lines(Tail(ls))

Sources == {join_lines(ls) : ls \in Strings(Lines, MaxLines)}

EditAlphabet == {"x", " ", "#", "$", "\"", "\\"}

\* A value of two lines, the second of which reads as a definition.
MultilineValue == << "x", "\n", "B", "=" >>

\* The values of two lines: the second line defines B, as empty or as z.
MultilineValues == { MultilineValue, MultilineValue \o << "z" >> }

\* The characters a value of one line counts for in a map of replacements.
OneLineChars(v) == IF v \in MultilineValues THEN 0 ELSE Len(v)

\* The maps of replacements: new values for some of the names. Each value
\* is a value of two lines or a value of one line, and the values of one
\* line have at most MaxEditChars characters in all; a value of two lines
\* may stand alone, beside a value of one line, or beside another one.
Replacements ==
    UNION { { repl \in [names -> Strings(EditAlphabet, MaxEditChars)
                                    \cup MultilineValues] :
                \A n \in names : \A m \in names \ {n} :
                    OneLineChars(repl[n]) + OneLineChars(repl[m]) <= MaxEditChars }
            : names \in SUBSET Names }

ReplaceInit ==
    /\ ParseIdle
    /\ ExpandIdle
    /\ DecideIdle
    /\ EscapeIdle
    /\ RunIdle
    /\ \E source \in Sources :
          /\ IsSome(parse(source))
          /\ dotenv = Unwrap(parse(source))
    /\ replacements \in Replacements
    /\ content = None
    /\ reparsed = None
    /\ rewritten = None

Replace ==
    /\ content = None
    /\ \E added \in Orders(added_names(dotenv, replacements)) :
          content' = Some(replace(dotenv, replacements, added))
    /\ UNCHANGED << dotenv, replacements, reparsed, rewritten >>
    /\ UNCHANGED << decide_vars, escape_vars, run_vars, parse_vars, expand_vars >>

Reparse ==
    /\ IsSome(content)
    /\ reparsed = None
    /\ reparsed' = Some(parse(Unwrap(content)))
    /\ UNCHANGED << dotenv, replacements, content, rewritten >>
    /\ UNCHANGED << decide_vars, escape_vars, run_vars, parse_vars, expand_vars >>

\* The second write: replace of the same map, on the parse of what the first
\* replace returned, and the parse of what it returns.
ReplaceAgain ==
    /\ IsSome(reparsed)
    /\ IsSome(Unwrap(reparsed))
    /\ rewritten = None
    /\ \E file \in {Unwrap(Unwrap(reparsed))} :
          \E added \in Orders(added_names(file, replacements)) :
              \E text \in {replace(file, replacements, added)} :
                  rewritten' = Some([content |-> text, parsed |-> parse(text)])
    /\ UNCHANGED << dotenv, replacements, content, reparsed >>
    /\ UNCHANGED << decide_vars, escape_vars, run_vars, parse_vars, expand_vars >>

ReplaceNext == Replace \/ Reparse \/ ReplaceAgain

SpecReplace == ReplaceInit /\ [][ReplaceNext]_vars

(***************************************************************************)
(* Claims about DotenvFile::replace                                        *)
(***************************************************************************)
Replaced == IsSome(content)
new_source == Unwrap(content)

\* The names replaced in place, and those appended.
InPlace == replaced_names(dotenv, replacements)
Appended == added_names(dotenv, replacements)

RECURSIVE substituted(_, _)
\* The source from byte `from` on, with the value span of every name of
\* `names` that starts at or after `from` holding the written form of the
\* new value of the name, and every other byte as in the source.
substituted(names, from) ==
    LET ahead == {n \in names : dotenv.value_spans[n].start >= from}
        next == CHOOSE n \in ahead :
                    \A m \in ahead :
                        dotenv.value_spans[n].start <= dotenv.value_spans[m].start
    IN  IF ahead = {} THEN Slice(dotenv.source, from, Len(dotenv.source))
        ELSE Slice(dotenv.source, from, dotenv.value_spans[next].start)
             \o escape(replacements[next])
             \o substituted(names \ {next}, dotenv.value_spans[next].end)

\* The bytes of the source outside the value spans of the names replaced in
\* place are in the output, unchanged and in order: the output starts with
\* the source in which only those spans are rewritten, and what follows is
\* the appended text, present only when a name is appended.
FramePreserved ==
    LET kept == substituted(InPlace, 0)
    IN  /\ Len(new_source) >= Len(kept)
        /\ SubSeq(new_source, 1, Len(kept)) = kept
        /\ Appended = {} => new_source = kept

\* C8 as claimed: when every name of the edit map has a recorded span and is
\* not in `referenced`, parsing the output of replace again succeeds and
\* yields the parameters of the file overridden by the edits, and the source
\* outside the edited spans is unchanged.
C8_RoundTrip ==
    (IsSome(reparsed) /\ Appended = {}) =>
        /\ IsSome(Unwrap(reparsed))
        /\ Unwrap(Unwrap(reparsed)).parameters = replacements @@ dotenv.parameters
        /\ FramePreserved

\* C9: every byte of the source outside the value spans of the names edited
\* in place is in the output of replace, unchanged and in order, so the
\* definition of every name that is not in the edit map is byte-identical;
\* and the DotenvFile is still the parse of its source after replace.
C9_Frame ==
    Replaced =>
        /\ FramePreserved
        /\ \A n \in DOMAIN dotenv.value_spans \ DOMAIN replacements :
              LET definition == Slice(dotenv.source,
                                      dotenv.value_spans[n].start - Len(n) - 1,
                                      dotenv.value_spans[n].end)
              IN  \E at \in 0..(Len(new_source) - Len(definition)) :
                      Slice(new_source, at, at + Len(definition)) = definition
        /\ dotenv = Unwrap(parse(dotenv.source))

\* A is replaced in place by a longer written form, and the definition of
\* B, which follows it and is not edited, moves but keeps its text.
C9_Witness ==
    /\ Replaced
    /\ DOMAIN replacements = { << "A" >> }
    /\ InPlace = { << "A" >> }
    /\ << "B" >> \in DOMAIN dotenv.value_spans
    /\ dotenv.value_spans[<< "B" >>].start > dotenv.value_spans[<< "A" >>].end
    /\ Len(new_source) > Len(dotenv.source)

(***************************************************************************)
(* SpecRun: one run of the dotenv command or of the file command, from the *)
(* loading of the local files to the end of the process.  run.pc is the    *)
(* position of execute: "start", "fetching" while the responses of the     *)
(* store are awaited, "reported" once the actions are printed, "confirmed" *)
(* once the user has answered yes, "executing" while the transfers are     *)
(* awaited, and "done", "failed" or "exited" at the end.                   *)
(* Every local write and every remote write is stamped with the time Now.  *)
(* run.result is what execute returned, if it returned, and run.status    *)
(* the status the process exits with.                                      *)
(***************************************************************************)
RunTimes == {0, Minute}

\* The times of the files and of the blobs: two of them less than a minute
\* apart.
FileTimes == {0, 1, Minute}

Now == MaxTime

DotenvSources ==
    { << "A", "=", "x" >>,
      << "B", "=", "y" >>,
      << "A", "=", "x", "\n", "B", "=", "y" >>,
      << "A", "=", "x", "\n", "B", "=", "\"", "$", "A", "\"" >> }

TemplateSources ==
    { << "A", "=", "t" >>,
      << "A", "=", "t", "\n", "B", "=", "t" >> }

Secrets == Option(Values \X Option(RunTimes))

DotenvRunInit ==
    /\ options \in [command : {"dotenv"}, sync_mode : SyncMode, check_only : BOOLEAN,
                    no_confirm : BOOLEAN, no_template : BOOLEAN]
    /\ \E dotenv_file \in Option({LocalFile(text, t) : text \in DotenvSources, t \in RunTimes}),
          template \in Option({LocalFile(text, 0) : text \in TemplateSources}) :
          disk = [dotenv |-> dotenv_file, template |-> template,
                  files |-> [p \in FilePaths |-> None]]
    /\ \E secrets \in [SecretNames -> Secrets] :
          store = [secrets |-> secrets, blobs |-> [k \in BlobNames |-> None]]

FileRunInit ==
    /\ options \in [command : {"file"}, sync_mode : SyncMode, check_only : BOOLEAN,
                    no_confirm : BOOLEAN, no_template : {FALSE}]
    /\ \E files \in [FilePaths -> Option({LocalFile(<< "x" >>, t) : t \in FileTimes})] :
          disk = [dotenv |-> None, template |-> None, files |-> files]
    /\ \E blobs \in [BlobNames -> Option({LocalFile(<< "y" >>, t) : t \in FileTimes})] :
          store = [secrets |-> [k \in SecretNames |-> None], blobs |-> blobs]

RunInit ==
    /\ ParseIdle
    /\ ExpandIdle
    /\ DecideIdle
    /\ EscapeIdle
    /\ FileIdle
    /\ DotenvRunInit \/ FileRunInit
    /\ run = [pc |-> "start", dotenv |-> None, names |-> {}, opened |-> << >>,
              awaiting |-> {}, responses |-> << >>, actions |-> << >>,
              pending |-> {}, started |-> {}, result |-> None,
              status |-> None]
    /\ log = << >>

Event(op, arg) == [op |-> op, arg |-> arg]

\* One event for each name.
Events(op, names) == [i \in 1..Len(names) |-> Event(op, names[i])]

\* The names of the actions of one of the kinds.
names_of(actions, kinds) ==
    {actions[i].name : i \in {j \in DOMAIN actions : actions[j].kind \in kinds}}

action_named(name) == run.actions[CHOOSE i \in DOMAIN run.actions : run.actions[i].name = name]

\* The status the process exits with once execute has returned: app::run
\* logs the causes of an Err and returns Ok(()) in either case.
app_run(result) == 0

\* execute returns: Ok(()) at the end of the command, Err at the first `?`
\* or bail! that fires.
Returned(result) ==
    [run EXCEPT !.pc = IF result = "Err" THEN "failed" ELSE "done",
                !.result = Some(result),
                !.status = Some(app_run(result))]

Failed == Returned("Err")

\* fetched_secrets without the short-circuit of PushAlways.
fetched_secrets_every_mode(mode, var_names) == {secret_name(n) : n \in var_names}

\* The secrets get_remote_vars asks the Key Vault for.
fetched_secrets(mode, var_names) ==
    IF mode = "PushAlways" THEN {} ELSE {secret_name(n) : n \in var_names}

\* DotenvOptions::execute, up to the first poll of get_remote_vars: the
\* dotenv file and the template are loaded, the names to synchronize are
\* collected in a HashSet, and one get_secret is requested for each of them,
\* in the order the HashSet yields them.
DotenvLoad ==
    /\ options.command = "dotenv"
    /\ run.pc = "start"
    /\ \E loaded \in {from_path_exists(disk.dotenv)},
          template \in {IF options.no_template THEN Some(None)
                        ELSE from_path_exists(disk.template)} :
          IF \/ IsNone(loaded)
             \/ IsNone(template)
             \/ IsNone(vars_to_sync(Unwrap(template), Unwrap(loaded)))
          THEN /\ run' = Failed
               /\ UNCHANGED log
          ELSE \E var_names \in {Unwrap(vars_to_sync(Unwrap(template), Unwrap(loaded)))} :
               \E order \in Orders(fetched_secrets(options.sync_mode, var_names)) :
                  /\ run' = [run EXCEPT !.pc = "fetching",
                                        !.dotenv = Unwrap(loaded),
                                        !.names = var_names,
                                        !.awaiting = {order[i] : i \in DOMAIN order}]
                  /\ log' = log \o Events("get_secret", order)
    /\ UNCHANGED << options, disk, store >>
    /\ UNCHANGED << decide_vars, escape_vars, file_vars, parse_vars, expand_vars >>

\* DefaultAzureCredential::new, resolve_url or SecretClient::new fails:
\* the error is returned before any request is made, in every mode.
DotenvClientFails ==
    /\ options.command = "dotenv"
    /\ run.pc = "start"
    /\ run' = Failed
    /\ UNCHANGED << options, disk, store, log >>
    /\ UNCHANGED << decide_vars, escape_vars, file_vars, parse_vars, expand_vars >>

\* The response to one get_secret is delivered: the secret as the Key Vault
\* holds it, a 404 being filtered out.
DotenvReceive(name) ==
    /\ options.command = "dotenv"
    /\ run.pc = "fetching"
    /\ name \in run.awaiting
    /\ run' = [run EXCEPT !.awaiting = @ \ {name},
                          !.responses = @ @@ (name :> (IF name \in DOMAIN store.secrets
                                                       THEN store.secrets[name]
                                                       ELSE None))]
    /\ UNCHANGED << options, disk, store, log >>
    /\ UNCHANGED << decide_vars, escape_vars, file_vars, parse_vars, expand_vars >>

\* get_remote_vars fails: one of the requested secrets cannot be fetched,
\* for another reason than its absence.  The requests were all made, and
\* the responses delivered before the error are dropped.
DotenvFetchFails(name) ==
    /\ options.command = "dotenv"
    /\ run.pc = "fetching"
    /\ name \in run.awaiting
    /\ run' = Failed
    /\ UNCHANGED << options, disk, store, log >>
    /\ UNCHANGED << decide_vars, escape_vars, file_vars, parse_vars, expand_vars >>

\* Every response is in: one action is decided for each name to
\* synchronize, and the sorted list is printed.
DotenvReport ==
    /\ options.command = "dotenv"
    /\ run.pc = "fetching"
    /\ run.awaiting = {}
    /\ \E remote_vars \in {get_remote_vars(options.sync_mode, run.responses, run.names)} :
       \E actions \in {var_actions(options.sync_mode, run.dotenv, remote_vars,
                                   run.names)} :
          run' = [run EXCEPT !.pc = "reported",
                             !.actions = actions,
                             !.pending = names_of(actions, {"Push"})]
    /\ log' = Append(log, Event("report", << >>))
    /\ UNCHANGED << options, disk, store >>
    /\ UNCHANGED << decide_vars, escape_vars, file_vars, parse_vars, expand_vars >>

\* DotenvCheckOnly with the status of a run that found nothing to do.
DotenvCheckOnly_exits_zero ==
    /\ options.command = "dotenv"
    /\ run.pc = "reported"
    /\ options.check_only \/ unchanged(run.actions)
    /\ run' = [run EXCEPT !.pc = "exited", !.status = Some(0)]
    /\ UNCHANGED << options, disk, store, log >>
    /\ UNCHANGED << decide_vars, escape_vars, file_vars, parse_vars, expand_vars >>

\* if self.check_only || unchanged { exit(i32::from(!unchanged)) }
DotenvCheckOnly ==
    /\ options.command = "dotenv"
    /\ run.pc = "reported"
    /\ options.check_only \/ unchanged(run.actions)
    /\ run' = [run EXCEPT !.pc = "exited",
                          !.status = Some(IF unchanged(run.actions) THEN 0 ELSE 1)]
    /\ UNCHANGED << options, disk, store, log >>
    /\ UNCHANGED << decide_vars, escape_vars, file_vars, parse_vars, expand_vars >>

\* confirm()?, which the dotenv command calls whatever no_confirm is.  An
\* answer that is neither yes nor no asks again.
DotenvConfirm ==
    /\ options.command = "dotenv"
    /\ run.pc = "reported"
    /\ ~(options.check_only \/ unchanged(run.actions))
    /\ \E answer \in {"y", "n"} :
          /\ log' = Append(log, Event("confirm", << answer >>))
          /\ run' = IF answer = "y" THEN [run EXCEPT !.pc = "confirmed"] ELSE Failed
    /\ UNCHANGED << options, disk, store >>
    /\ UNCHANGED << decide_vars, escape_vars, file_vars, parse_vars, expand_vars >>

\* The local file is rewritten with the pulled values, before the pushes
\* are awaited.
DotenvWriteLocal ==
    /\ options.command = "dotenv"
    /\ run.pc = "confirmed"
    /\ \E pull \in {pull_map(run.actions)},
          self \in {IF IsSome(run.dotenv) THEN Unwrap(run.dotenv)
                    ELSE DotenvFile_default} :
          \E added \in Orders(added_names(self, pull)) :
             disk' = [disk EXCEPT !.dotenv = Some(LocalFile(replace(self, pull, added),
                                                            Now))]
    /\ log' = Append(log, Event("write_local", << >>))
    /\ run' = [run EXCEPT !.pc = "executing"]
    /\ UNCHANGED << options, store >>
    /\ UNCHANGED << decide_vars, escape_vars, file_vars, parse_vars, expand_vars >>

\* The write of the local file fails: in File::create, which leaves the
\* file as it was, or in write!, after File::create has truncated the
\* file, which leaves it with the part of the new source written so far.
DotenvWriteLocalFails ==
    /\ options.command = "dotenv"
    /\ run.pc = "confirmed"
    /\ run' = Failed
    /\ \/ UNCHANGED << disk, log >>
       \/ \E pull \in {pull_map(run.actions)},
             self \in {IF IsSome(run.dotenv) THEN Unwrap(run.dotenv)
                       ELSE DotenvFile_default} :
             \E added \in Orders(added_names(self, pull)) :
             \E new_text \in {replace(self, pull, added)} :
             \E written \in 0..(Len(new_text) - 1) :
                /\ disk' = [disk EXCEPT !.dotenv =
                               Some(LocalFile(SubSeq(new_text, 1, written), Now))]
                /\ log' = Append(log, Event("truncate_local", << >>))
    /\ UNCHANGED << options, store >>
    /\ UNCHANGED << decide_vars, escape_vars, file_vars, parse_vars, expand_vars >>

\* One of the futures of `push` completes: client.set_secret(name, value).
SetSecret(name) ==
    /\ options.command = "dotenv"
    /\ run.pc = "executing"
    /\ name \in run.pending
    /\ store' = [store EXCEPT !.secrets[secret_name(name)] =
                     Some(<< Unwrap(action_named(name).value), Some(Now) >>)]
    /\ log' = Append(log, Event("set_secret", secret_name(name)))
    /\ run' = [run EXCEPT !.pending = @ \ {name}]
    /\ UNCHANGED << options, disk >>
    /\ UNCHANGED << decide_vars, escape_vars, file_vars, parse_vars, expand_vars >>

\* One of the futures of `push` fails: try_collect returns the error and
\* the other futures are dropped.
SetSecretFails(name) ==
    /\ options.command = "dotenv"
    /\ run.pc = "executing"
    /\ name \in run.pending
    /\ run' = Failed
    /\ UNCHANGED << options, disk, store, log >>
    /\ UNCHANGED << decide_vars, escape_vars, file_vars, parse_vars, expand_vars >>

\* Every push has completed: Ok(()).
DotenvDone ==
    /\ options.command = "dotenv"
    /\ run.pc = "executing"
    /\ run.pending = {}
    /\ run' = Returned("Ok")
    /\ UNCHANGED << options, disk, store, log >>
    /\ UNCHANGED << decide_vars, escape_vars, file_vars, parse_vars, expand_vars >>

\* SyncFileOptions::execute, up to the first poll of the get_file_action
\* futures: the paths are collected in a HashSet, and each future opens its
\* local file, reads its modified time and requests the download of its
\* blob, in the order the HashSet yields the paths.
FileLoad ==
    /\ options.command = "file"
    /\ run.pc = "start"
    /\ \E order \in Orders(BlobNames) :
          /\ run' = [run EXCEPT !.pc = "fetching",
                                !.names = BlobNames,
                                !.opened = disk.files,
                                !.awaiting = BlobNames]
          /\ log' = log \o Events("download", order)
    /\ UNCHANGED << options, disk, store >>
    /\ UNCHANGED << decide_vars, escape_vars, file_vars, parse_vars, expand_vars >>

\* The dotenv file, a path, the blob name pattern, the credential, the
\* endpoint or the container name is in error: the error is returned
\* before any request is made.
FileSetupFails ==
    /\ options.command = "file"
    /\ run.pc = "start"
    /\ run' = Failed
    /\ UNCHANGED << options, disk, store, log >>
    /\ UNCHANGED << decide_vars, escape_vars, file_vars, parse_vars, expand_vars >>

\* File::open or the read of the modified time fails, for another reason
\* than the absence of the file, in the first poll of a get_file_action:
\* the futures polled before it have requested their downloads, the others
\* have not started.
FileOpenFails(name) ==
    /\ options.command = "file"
    /\ run.pc = "start"
    /\ name \in BlobNames
    /\ \E requested \in SUBSET (BlobNames \ {name}) :
       \E order \in Orders(requested) :
          log' = log \o Events("download", order)
    /\ run' = Failed
    /\ UNCHANGED << options, disk, store >>
    /\ UNCHANGED << decide_vars, escape_vars, file_vars, parse_vars, expand_vars >>

\* The response to one download is delivered: the blob as the container
\* holds it, None for a 404.
FileReceive(name) ==
    /\ options.command = "file"
    /\ run.pc = "fetching"
    /\ name \in run.awaiting
    /\ run' = [run EXCEPT !.awaiting = @ \ {name},
                          !.responses = @ @@ (name :> store.blobs[name])]
    /\ UNCHANGED << options, disk, store, log >>
    /\ UNCHANGED << decide_vars, escape_vars, file_vars, parse_vars, expand_vars >>

\* get_file_action fails: one of the blobs cannot be downloaded, for
\* another reason than its absence.  The downloads were all requested, and
\* the responses delivered before the error are dropped.
FileFetchFails(name) ==
    /\ options.command = "file"
    /\ run.pc = "fetching"
    /\ name \in run.awaiting
    /\ run' = Failed
    /\ UNCHANGED << options, disk, store, log >>
    /\ UNCHANGED << decide_vars, escape_vars, file_vars, parse_vars, expand_vars >>

\* Every get_file_action has returned: the actions are sorted and printed.
FileReport ==
    /\ options.command = "file"
    /\ run.pc = "fetching"
    /\ run.awaiting = {}
    /\ \E actions \in {sort_file_actions(
                            {get_file_action(options.sync_mode, run.opened[path],
                                             run.responses[blob_name_of(path)], path)
                                : path \in FilePaths})} :
          run' = [run EXCEPT !.pc = "reported",
                             !.actions = actions,
                             !.pending = names_of(actions, {"Push", "Pull"})]
    /\ log' = Append(log, Event("report", << >>))
    /\ UNCHANGED << options, disk, store >>
    /\ UNCHANGED << decide_vars, escape_vars, file_vars, parse_vars, expand_vars >>

\* if self.sync.check_only || unchanged { exit(i32::from(!unchanged)) }
FileCheckOnly ==
    /\ options.command = "file"
    /\ run.pc = "reported"
    /\ options.check_only \/ unchanged(run.actions)
    /\ run' = [run EXCEPT !.pc = "exited",
                          !.status = Some(IF unchanged(run.actions) THEN 0 ELSE 1)]
    /\ UNCHANGED << options, disk, store, log >>
    /\ UNCHANGED << decide_vars, escape_vars, file_vars, parse_vars, expand_vars >>

\* FileConfirm with the answer ignored: the actions are executed after a
\* "no" as after a "yes".
FileConfirm_ignores_answer ==
    /\ options.command = "file"
    /\ run.pc = "reported"
    /\ ~(options.check_only \/ unchanged(run.actions))
    /\ IF options.no_confirm
       THEN /\ run' = [run EXCEPT !.pc = "executing"]
            /\ UNCHANGED log
       ELSE \E answer \in {"y", "n"} :
               /\ log' = Append(log, Event("confirm", << answer >>))
               /\ run' = [run EXCEPT !.pc = "executing"]
    /\ UNCHANGED << options, disk, store >>
    /\ UNCHANGED << decide_vars, escape_vars, file_vars, parse_vars, expand_vars >>

\* if !self.sync.no_confirm { confirm()?; }
FileConfirm ==
    /\ options.command = "file"
    /\ run.pc = "reported"
    /\ ~(options.check_only \/ unchanged(run.actions))
    /\ IF options.no_confirm
       THEN /\ run' = [run EXCEPT !.pc = "executing"]
            /\ UNCHANGED log
       ELSE \E answer \in {"y", "n"} :
               /\ log' = Append(log, Event("confirm", << answer >>))
               /\ run' = IF answer = "y" THEN [run EXCEPT !.pc = "executing"] ELSE Failed
    /\ UNCHANGED << options, disk, store >>
    /\ UNCHANGED << decide_vars, escape_vars, file_vars, parse_vars, expand_vars >>

\* The path whose blob has the name.
path_of(name) == CHOOSE path \in FilePaths : blob_name_of(path) = name

\* The first poll of a PullFile: File::create(self.context.local_path)?
\* creates the file, or truncates it; it is empty from here on.  The
\* executions are polled one after the other, and one whose body is ready
\* goes on to its chunks before the next one creates its file.
PullFile_create(name) ==
    /\ options.command = "file"
    /\ run.pc = "executing"
    /\ name \in run.pending \ run.started
    /\ action_named(name).kind = "Pull"
    /\ disk' = [disk EXCEPT !.files[path_of(name)] = Some(LocalFile(<< >>, Now))]
    /\ log' = Append(log, Event("create_file", path_of(name)))
    /\ run' = [run EXCEPT !.started = @ \cup {name}]
    /\ UNCHANGED << options, store >>
    /\ UNCHANGED << decide_vars, escape_vars, file_vars, parse_vars, expand_vars >>

\* The body of the blob the PullFile holds, and the part of it that is in
\* the file.
body_of(name) == Unwrap(run.responses[name]).content

written_of(name) == Unwrap(disk.files[path_of(name)]).content

\* while let Some(chunk) = self.remote_blob.try_next().await? {
\*     file.write_all(&chunk)? }: one chunk of the body is written.
PullFile_write_all(name) ==
    /\ options.command = "file"
    /\ run.pc = "executing"
    /\ name \in run.pending
    /\ name \in run.started
    /\ \E chunk \in 1..(Len(body_of(name)) - Len(written_of(name))) :
          disk' = [disk EXCEPT !.files[path_of(name)] =
                      Some(LocalFile(SubSeq(body_of(name), 1,
                                            Len(written_of(name)) + chunk), Now))]
    /\ log' = Append(log, Event("write_chunk", path_of(name)))
    /\ UNCHANGED << options, store, run >>
    /\ UNCHANGED << decide_vars, escape_vars, file_vars, parse_vars, expand_vars >>

\* PullFile_set_modified without set_modified: the file keeps the time of
\* the write.
PullFile_set_modified_keeps_write_time(name) ==
    /\ options.command = "file"
    /\ run.pc = "executing"
    /\ name \in run.pending
    /\ name \in run.started
    /\ written_of(name) = body_of(name)
    /\ log' = Append(log, Event("write_file", path_of(name)))
    /\ run' = [run EXCEPT !.pending = @ \ {name}]
    /\ UNCHANGED << options, disk, store >>
    /\ UNCHANGED << decide_vars, escape_vars, file_vars, parse_vars, expand_vars >>

\* The body has ended: file.set_modified(self.remote_modified.into())?
\* gives the file the time the action carries, and the PullFile returns.
PullFile_set_modified(name) ==
    /\ options.command = "file"
    /\ run.pc = "executing"
    /\ name \in run.pending
    /\ name \in run.started
    /\ written_of(name) = body_of(name)
    /\ disk' = [disk EXCEPT !.files[path_of(name)] =
                    Some(LocalFile(written_of(name),
                                   Unwrap(action_named(name).modified)))]
    /\ log' = Append(log, Event("write_file", path_of(name)))
    /\ run' = [run EXCEPT !.pending = @ \ {name}]
    /\ UNCHANGED << options, store >>
    /\ UNCHANGED << decide_vars, escape_vars, file_vars, parse_vars, expand_vars >>

\* PushFile::execute: the local file is uploaded, the time the action
\* carries being recorded as the `modified` metadata of the blob.
PushFile_execute(name) ==
    /\ options.command = "file"
    /\ run.pc = "executing"
    /\ name \in run.pending
    /\ action_named(name).kind = "Push"
    /\ store' = [store EXCEPT !.blobs[name] =
                     Some(LocalFile(Unwrap(disk.files[path_of(name)]).content,
                                    Unwrap(action_named(name).modified)))]
    /\ log' = Append(log, Event("upload", name))
    /\ run' = [run EXCEPT !.pending = @ \ {name}]
    /\ UNCHANGED << options, disk >>
    /\ UNCHANGED << decide_vars, escape_vars, file_vars, parse_vars, expand_vars >>

\* FileActionFails with a rollback: the files the completed pulls wrote
\* are removed when another action fails.
FileActionFails_rolls_back(name) ==
    /\ options.command = "file"
    /\ run.pc = "executing"
    /\ name \in run.pending
    /\ run' = Failed
    /\ disk' = [disk EXCEPT !.files =
                   [path \in FilePaths |->
                       IF \E i \in DOMAIN log : log[i] = Event("write_file", path)
                       THEN None ELSE disk.files[path]]]
    /\ UNCHANGED << options, store, log >>
    /\ UNCHANGED << decide_vars, escape_vars, file_vars, parse_vars, expand_vars >>

\* One of the actions fails (File::create, the body, write_all,
\* set_modified or the upload is in error): try_collect returns the error
\* and the other executions are dropped where they are.  A file a PullFile
\* has not created is untouched, and one it has not finished stays as its
\* last write left it.
FileActionFails(name) ==
    /\ options.command = "file"
    /\ run.pc = "executing"
    /\ name \in run.pending
    /\ run' = Failed
    /\ UNCHANGED << options, disk, store, log >>
    /\ UNCHANGED << decide_vars, escape_vars, file_vars, parse_vars, expand_vars >>

\* Every action has completed: Ok(()).
FileDone ==
    /\ options.command = "file"
    /\ run.pc = "executing"
    /\ run.pending = {}
    /\ run' = Returned("Ok")
    /\ UNCHANGED << options, disk, store, log >>
    /\ UNCHANGED << decide_vars, escape_vars, file_vars, parse_vars, expand_vars >>

DotenvNext ==
    \/ DotenvLoad
    \/ DotenvClientFails
    \/ \E name \in SecretNames : DotenvReceive(name)
    \/ \E name \in SecretNames : DotenvFetchFails(name)
    \/ DotenvReport
    \/ DotenvCheckOnly
    \/ DotenvConfirm
    \/ DotenvWriteLocal
    \/ DotenvWriteLocalFails
    \/ \E name \in Names : SetSecret(name)
    \/ \E name \in Names : SetSecretFails(name)
    \/ DotenvDone

FileNext ==
    \/ FileLoad
    \/ FileSetupFails
    \/ \E name \in BlobNames : FileOpenFails(name)
    \/ \E name \in BlobNames : FileReceive(name)
    \/ \E name \in BlobNames : FileFetchFails(name)
    \/ FileReport
    \/ FileCheckOnly
    \/ FileConfirm
    \/ \E name \in BlobNames : PullFile_create(name)
    \/ \E name \in BlobNames : PullFile_write_all(name)
    \/ \E name \in BlobNames : PullFile_set_modified(name)
    \/ \E name \in BlobNames : PushFile_execute(name)
    \/ \E name \in BlobNames : FileActionFails(name)
    \/ FileDone

RunNext == DotenvNext \/ FileNext

SpecRun == RunInit /\ [][RunNext]_vars

(***************************************************************************)
(* SpecDirection: the decision procedures on every combination of values   *)
(* and timestamps, together with the runs of the two commands.             *)
(***************************************************************************)
DirectionInit == DecideInit \/ RunInit

DirectionNext == DecideNext \/ RunNext

SpecDirection == DirectionInit /\ [][DirectionNext]_vars

(***************************************************************************)
(* Claims about the direction of a mode                                    *)
(***************************************************************************)
PushModes == {"Push", "PushAlways"}

PullModes == {"Pull", "PullAlways"}

\* The kind of decision a mode allows.
Allowed(mode, kind) ==
    /\ mode \in PushModes => kind /= "Pull"
    /\ mode \in PullModes => kind /= "Push"

\* Every decision made so far goes in the direction of the mode: the one
\* SyncType::from_modified returned, the one the dotenv command made for
\* the variable, and the actions of a run.
DecisionsAllowed ==
    /\ IsSome(sync_type) => Allowed(sync_mode, Unwrap(sync_type).kind)
    /\ IsSome(var_action) => Allowed(sync_mode, Unwrap(var_action).kind)
    /\ \A i \in DOMAIN run.actions : Allowed(options.sync_mode, run.actions[i].kind)

RemoteWrites == {i \in DOMAIN log : log[i].op \in {"set_secret", "upload"}}

LocalWrites == {i \in DOMAIN log : log[i].op \in {"write_local", "write_file"}}

\* A step of a run in a push mode leaves every local file as it is: none
\* is created, and none changes content.
LocalContentKept ==
    options.sync_mode \in PushModes =>
        /\ IsSome(disk'.dotenv) = IsSome(disk.dotenv)
        /\ IsSome(disk.dotenv) =>
               Unwrap(disk'.dotenv).content = Unwrap(disk.dotenv).content
        /\ \A path \in FilePaths :
               /\ IsSome(disk'.files[path]) = IsSome(disk.files[path])
               /\ IsSome(disk.files[path]) =>
                      Unwrap(disk'.files[path]).content = Unwrap(disk.files[path]).content

\* C5: under Push and PushAlways no decision is Pull and under Pull and
\* PullAlways no decision is Push, in SyncType::from_modified and in the
\* dotenv command, for all values and timestamps; a run in a pull mode
\* makes no remote write, and no step of a run in a push mode changes the
\* content of a local file.
C5_Direction ==
    /\ [](DecisionsAllowed /\ (options.sync_mode \in PullModes => RemoteWrites = {}))
    /\ [][LocalContentKept]_vars

\* A dotenv run under Push has rewritten the local file and pushed a variable.
C5_Witness ==
    /\ options.command = "dotenv"
    /\ options.sync_mode = "Push"
    /\ run.pc = "done"
    /\ LocalWrites /= {}
    /\ RemoteWrites /= {}

(***************************************************************************)
(* Claims about writing the same replacements twice                        *)
(***************************************************************************)
WrittenTwice == IsSome(rewritten)
once == Unwrap(Unwrap(reparsed))
twice == Unwrap(rewritten)

\* C11: when the same map of replacements is applied twice, the second
\* replace on the parse of what the first returned, the text of the second
\* write parses, and its parameters are the parameters after the first write.
C11_Idempotent ==
    WrittenTwice =>
        /\ IsSome(twice.parsed)
        /\ Unwrap(twice.parsed).parameters = once.parameters

\* Both writes have something to do: one name is replaced in place and one
\* is appended by the first write, and the second write changes the text.
C11_Witness ==
    /\ WrittenTwice
    /\ InPlace /= {}
    /\ Appended /= {}
    /\ twice.content /= new_source

(***************************************************************************)
(* Claims about the names replace appends                                  *)
(***************************************************************************)
\* The text after the replacements in place, before anything is appended.
rewritten_text == substituted(InPlace, 0)

RECURSIVE definition_lines(_)
\* One line NAME=VALUE for each name, in the order given, the value in its
\* written form, every line ended by a newline.
definition_lines(order) ==
    IF order = << >> THEN << >>
    ELSE order[1] \o << "=" >> \o escape(replacements[order[1]]) \o << "\n" >>
         \o definition_lines(Tail(order))

EndsInNewline(text) == text /= << >> /\ text[Len(text)] = "\n"

\* C12 as claimed: when a name is appended, the output of replace is the
\* rewritten text, then one newline if that text does not end in a newline,
\* then one line NAME=VALUE for each appended name, and nothing else.
C12_AppendRule ==
    (Replaced /\ Appended /= {}) =>
        \E order \in Orders(Appended) :
            new_source =
                rewritten_text
                \o (IF EndsInNewline(rewritten_text) THEN << >> ELSE << "\n" >>)
                \o definition_lines(order)

\* C12, corrected: when a name is appended, the output of replace is the
\* rewritten text, then one newline if that text is not empty and does not
\* end in a newline, then one line NAME=VALUE for each appended name, the
\* value in its written form, and nothing else.  Nothing precedes the lines
\* appended to an empty text.
C12_AppendRuleNonEmpty ==
    (Replaced /\ Appended /= {}) =>
        \E order \in Orders(Appended) :
            new_source =
                rewritten_text
                \o (IF rewritten_text = << >> \/ EndsInNewline(rewritten_text)
                    THEN << >> ELSE << "\n" >>)
                \o definition_lines(order)

\* Two names are appended to a text that does not end in a newline, one of
\* them with a value that is written quoted.
C12_Witness ==
    /\ Replaced
    /\ Cardinality(Appended) = 2
    /\ rewritten_text /= << >>
    /\ ~EndsInNewline(rewritten_text)
    /\ \E n \in Appended : escape(replacements[n]) /= replacements[n]

(***************************************************************************)
(* SpecParse: DotenvFile::parse on a file of at most MaxParseLines lines,  *)
(* one iteration of its loop at a time.  parsing.file holds the locals     *)
(* source, parameters, value_spans and referenced; parsing.pairs the pairs *)
(* still to read; parsing.defined what each iteration read: the name, the  *)
(* rule and the text of the value, the value and the span, the names       *)
(* on_expand was called with, the parameters the value was resolved        *)
(* against and `referenced` at the end of the iteration.                   *)
(***************************************************************************)
ParseLines ==
    { << "A", "=", "x" >>,
      << "B", "=", "2" >>,
      << "A", "=", "$", "B" >>,
      << "B", "=", "\"", "$", "{", "A", "}", "\"" >>,
      << "A", "=", "$", "A", "$", "A" >>,
      << "B", "=", "'", "$", "A", "'" >>,
      << "B", "=", "'", "\\", "x", "'" >>,
      << "A", "=", "z", "$", "C" >>,
      << "#", " ", "c" >>,
      << "=", "x" >> }

ParseSources == {join_lines(ls) : ls \in Strings(ParseLines, MaxParseLines)}

ParseInit ==
    /\ DecideIdle
    /\ EscapeIdle
    /\ FileIdle
    /\ RunIdle
    /\ ExpandIdle
    /\ \E source \in ParseSources :
          parsing = [pc |-> "start", pairs |-> << >>,
                     file |-> [DotenvFile_default EXCEPT !.source = source],
                     defined |-> << >>]

\* DotenvParser::parse(Rule::dotenv, &source)?
ParseGrammar ==
    /\ parsing.pc = "start"
    /\ \E pairs \in {DotenvParser_parse(parsing.file.source)} :
          parsing' = IF IsNone(pairs) THEN [parsing EXCEPT !.pc = "failed"]
                     ELSE [parsing EXCEPT !.pc = "definitions", !.pairs = Unwrap(pairs)]
    /\ UNCHANGED << decide_vars, escape_vars, file_vars, run_vars, expand_vars >>

\* One iteration of `for pair in pairs`, for a Rule::var_definition.
ParseDefinition ==
    /\ parsing.pc = "definitions"
    /\ parsing.pairs /= << >>
    /\ \E pair \in {Head(parsing.pairs)} :
       \E def \in {var_definition(parsing.file.source, pair, parsing.file.parameters)} :
       \E file \in {parse_definition(parsing.file, pair)} :
          parsing' = [parsing EXCEPT
                         !.pairs = Tail(parsing.pairs),
                         !.file = file,
                         !.defined = Append(parsing.defined,
                             [name |-> def.name, rule |-> pair.rule,
                              text |-> Slice(parsing.file.source,
                                             pair.span.start, pair.span.end),
                              value |-> file.parameters[def.name],
                              span |-> file.value_spans[def.name],
                              expanded |-> def.expanded,
                              parameters |-> parsing.file.parameters,
                              referenced |-> file.referenced])]
    /\ UNCHANGED << decide_vars, escape_vars, file_vars, run_vars, expand_vars >>

\* Rule::EOI, and Ok(DotenvFile { .. })
ParseDone ==
    /\ parsing.pc = "definitions"
    /\ parsing.pairs = << >>
    /\ parsing' = [parsing EXCEPT !.pc = "done"]
    /\ UNCHANGED << decide_vars, escape_vars, file_vars, run_vars, expand_vars >>

ParseNext == ParseGrammar \/ ParseDefinition \/ ParseDone

SpecParse == ParseInit /\ [][ParseNext]_vars

(***************************************************************************)
(* Claims about DotenvFile::parse                                          *)
(***************************************************************************)
Parsed == parsing.pc = "done"
defined == parsing.defined
parsed_file == parsing.file

\* The names a value refers to by a whole reference: the text of the value
\* is $NAME or ${NAME}, bare or within double quotes.
WholeReference(d, name) ==
    /\ d.rule \in {"var_value_uq", "var_value_dq"}
    /\ \E ref \in { << "$" >> \o name, << "$", "{" >> \o name \o << "}" >> } :
          d.text \in { ref, << "\"" >> \o ref \o << "\"" >> }

\* The i-th definition refers to a name that no definition before it
\* defines and that a definition after it defines.
ForwardReference(i, name) ==
    /\ WholeReference(defined[i], name)
    /\ \A j \in 1..(i - 1) : defined[j].name /= name
    /\ \E j \in (i + 1)..Len(defined) : defined[j].name = name

\* The i-th definition is the last one of its name.
LastDefinition(i) ==
    \A j \in (i + 1)..Len(defined) : defined[j].name /= defined[i].name

\* `referenced` when the i-th iteration starts.
referenced_before(i) == IF i = 1 THEN {} ELSE defined[i - 1].referenced

\* C13 as claimed: when the value of a definition refers to a name that is
\* defined only later, the reference expands to nothing, the referring name
\* is in `referenced` and it has no entry in value_spans.
C13_ForwardReference ==
    Parsed =>
        \A i \in 1..Len(defined) : \A name \in Names :
            (ForwardReference(i, name) /\ LastDefinition(i)) =>
                /\ parsed_file.parameters[defined[i].name] = << >>
                /\ defined[i].name \in parsed_file.referenced
                /\ defined[i].name \notin DOMAIN parsed_file.value_spans

\* C13, corrected: when the value of a definition refers to a name that is
\* defined only later, the reference expands to nothing and on_expand is not
\* called, so the reference adds no name to `referenced`; the referring name
\* has its span in value_spans like every defined name.  For a file of the
\* two definitions A=$B and B=2, parameters is {A: "", B: "2"}, `referenced`
\* is empty and value_spans has both A and B.
C13_ForwardReferenceUntracked ==
    Parsed =>
        /\ \A i \in 1..Len(defined) : \A name \in Names :
              ForwardReference(i, name) =>
                  /\ defined[i].value = << >>
                  /\ defined[i].expanded = {}
                  /\ defined[i].referenced = referenced_before(i) \ {defined[i].name}
                  /\ LastDefinition(i) =>
                        /\ parsed_file.parameters[defined[i].name] = << >>
                        /\ parsed_file.value_spans[defined[i].name] = defined[i].span
        /\ (/\ Len(defined) = 2
            /\ ForwardReference(1, defined[2].name)
            /\ defined[2].expanded = {}) =>
                /\ parsed_file.parameters =
                       (defined[1].name :> << >>) @@ (defined[2].name :> defined[2].value)
                /\ parsed_file.referenced = {}
                /\ DOMAIN parsed_file.value_spans = {defined[1].name, defined[2].name}

\* The file A=$B, B=2 is parsed.
C13_Witness ==
    /\ Parsed
    /\ parsed_file.source = << "A", "=", "$", "B", "\n", "B", "=", "2" >>
    /\ parsed_file.parameters = (<< "A" >> :> << >>) @@ (<< "B" >> :> << "2" >>)

\* C14 as claimed: after a successful parse, no name is both in `referenced`
\* and a key of value_spans.
C14_ReferencedHasNoSpan ==
    Parsed => parsed_file.referenced \cap DOMAIN parsed_file.value_spans = {}

\* C14, corrected: after a successful parse, every name of `referenced` is a
\* key of value_spans and of parameters: a name enters `referenced` when a
\* later definition expands it, and it keeps the span of its definition.
\* value_spans and parameters have the same keys, the names defined.
C14_ReferencedHasSpan ==
    Parsed =>
        /\ parsed_file.referenced \subseteq DOMAIN parsed_file.value_spans
        /\ DOMAIN parsed_file.value_spans = DOMAIN parsed_file.parameters
        /\ DOMAIN parsed_file.parameters = {defined[i].name : i \in 1..Len(defined)}
        /\ \A name \in parsed_file.referenced :
              \E i \in 1..Len(defined) : \E j \in (i + 1)..Len(defined) :
                  /\ defined[i].name = name
                  /\ name \in defined[j].expanded

\* A is defined, and then expanded by the definition of B.
C14_Witness ==
    /\ Parsed
    /\ parsed_file.referenced = { << "A" >> }
    /\ << "A" >> \in DOMAIN parsed_file.value_spans
    /\ Len(defined) = 2
    /\ defined[2].name = << "B" >>

\* C15: when a name is defined more than once, parameters and value_spans
\* hold the value and the span of its last definition; and every definition
\* of a name leaves the name out of `referenced`, whether the name was there
\* before and whether the value of the definition expands the name itself.
C15_LastDefinitionWins ==
    \A i \in 1..Len(defined) :
        /\ defined[i].name \notin defined[i].referenced
        /\ (Parsed /\ LastDefinition(i)) =>
              /\ parsed_file.parameters[defined[i].name] = defined[i].value
              /\ parsed_file.value_spans[defined[i].name] = defined[i].span
              /\ Slice(parsed_file.source, defined[i].span.start, defined[i].span.end)
                    = defined[i].text

\* A name is defined, expanded by the definition of another name, and then
\* defined again with a value that expands the name itself; the two
\* definitions differ in value and in span.
C15_Witness ==
    /\ Parsed
    /\ \E i, j \in 1..Len(defined) :
          /\ i < j
          /\ LastDefinition(j)
          /\ defined[i].name = defined[j].name
          /\ defined[i].value /= defined[j].value
          /\ defined[i].span /= defined[j].span
          /\ defined[j].name \in referenced_before(j)
          /\ defined[j].name \in defined[j].expanded

\* The variables defined by the definitions before the i-th, each with the
\* value of its last definition before the i-th.
earlier(i) ==
    [name \in {defined[j].name : j \in 1..(i - 1)} |->
        defined[CHOOSE j \in 1..(i - 1) :
                    /\ defined[j].name = name
                    /\ \A k \in (j + 1)..(i - 1) : defined[k].name /= name].value]

\* The value of a definition whose text is `text`, resolved against `params`.
resolved(rule, text, params) ==
    CASE rule = "var_value_uq" -> unescape(expand(text, params))
      [] rule = "var_value_dq" -> unescape(expand(SubSeq(text, 2, Len(text) - 1), params))
      [] rule = "var_value_sq" -> SubSeq(text, 2, Len(text) - 1)

\* C16: the value of every definition is resolved against exactly the
\* variables that the definitions before it define, each with the value it
\* had at that point; a value that is a reference to such a variable is the
\* value of the variable at that point, and a value that is a reference to a
\* name defined only later, or never, is empty.
C16_TopToBottom ==
    \A i \in 1..Len(defined) :
        /\ defined[i].parameters = earlier(i)
        /\ defined[i].value = resolved(defined[i].rule, defined[i].text, earlier(i))
        /\ \A name \in Names \cup { << "C" >> } :
              WholeReference(defined[i], name) =>
                  defined[i].value = IF name \in DOMAIN earlier(i)
                                     THEN unescape(earlier(i)[name])
                                     ELSE << >>

\* The value of a definition is a reference to a name that is defined
\* before it and defined again after it with another value: the value is
\* the one the name had at that point, not the one it has in the end.
C16_Witness ==
    /\ Parsed
    /\ \E i \in 1..Len(defined) : \E name \in Names :
          /\ WholeReference(defined[i], name)
          /\ name \in DOMAIN earlier(i)
          /\ defined[i].value /= << >>
          /\ defined[i].value /= parsed_file.parameters[name]
          /\ LastDefinition(i)

(***************************************************************************)
(* SpecExpand: expand on every string of at most MaxExpandLen characters,  *)
(* one iteration of the loop of Expand::next at a time.                    *)
(***************************************************************************)
ExpandAlphabet == {"$", "{", "}", "\\", "a", "1", "-"}

\* The parameters handed to expand: none, or a and aa, the value of aa
\* being itself the text of a reference.
ExpandParameters ==
    { << >>,
      (<< "a" >> :> << "x" >>) @@ (<< "a", "a" >> :> << "$", "a" >>)
         @@ (<< "a", "1" >> :> << "\\", "$", "{", "a", "}" >>) }

ExpandInit ==
    /\ DecideIdle
    /\ EscapeIdle
    /\ FileIdle
    /\ RunIdle
    /\ ParseIdle
    /\ expand_input \in Strings(ExpandAlphabet, MaxExpandLen)
    /\ expand_parameters \in ExpandParameters
    /\ expansion = Expand(expand_input)
    /\ expansion_steps = << expansion >>
    /\ unescaping = Unescape(<< >>)

\* One iteration of the loop of Expand::next, run by the call of
\* self.inner.next() in Unescape::next: the character the iteration returns,
\* if any, is what that call returns.
ExpandStep ==
    /\ expansion_steps /= << >>
    /\ ~expansion.done
    /\ unescaping.inner = << >>
    /\ expansion' = Expand_step(expansion, expand_parameters)
    /\ expansion_steps' = Append(expansion_steps, expansion')
    /\ unescaping' = [unescaping EXCEPT
                         !.inner = Drop(expansion'.out, Len(expansion.out))]
    /\ UNCHANGED << expand_input, expand_parameters >>
    /\ UNCHANGED << decide_vars, escape_vars, file_vars, run_vars, parse_vars >>

\* One iteration of the loop of Unescape::next, once self.inner.next() has
\* returned: a character of the expansion, or None when it is over.
UnescapeStep ==
    /\ expansion_steps /= << >>
    /\ ~unescaping.done
    /\ unescaping.inner /= << >> \/ expansion.done
    /\ unescaping' = Unescape_step(unescaping)
    /\ UNCHANGED << expand_input, expand_parameters, expansion, expansion_steps >>
    /\ UNCHANGED << decide_vars, escape_vars, file_vars, run_vars, parse_vars >>

ExpandNext == ExpandStep \/ UnescapeStep

SpecExpand == ExpandInit /\ [][ExpandNext]_vars

(***************************************************************************)
(* Claims about Expand.  A `$` starts a token when the iterator reads it   *)
(* outside of an escape: the iterator is then in State::StartExpansion,    *)
(* and the token is over when the iterator is next in State::NotExpanding. *)
(***************************************************************************)
steps == expansion_steps

\* The k-th state is the one that follows the `$` of a token.
Started(k) == steps[k].state = "StartExpansion"

\* The input that follows the `$` of the token.
following(k) == steps[k].inner

\* The token that starts at the k-th state is over.
Resumed(k) == \E m \in (k + 1)..Len(steps) : steps[m].state = "NotExpanding"

\* The first state in which the iterator is in NotExpanding again.
resumed(k) ==
    steps[CHOOSE m \in (k + 1)..Len(steps) :
              /\ steps[m].state = "NotExpanding"
              /\ \A n \in (k + 1)..(m - 1) : steps[n].state /= "NotExpanding"]

NameChar(c) == is_name_start(c) \/ is_ascii_digit(c)

RECURSIVE name_run(_)
\* The longest run of name characters that starts the text.
name_run(text) ==
    IF text /= << >> /\ NameChar(Head(text))
    THEN << Head(text) >> \o name_run(Tail(text))
    ELSE << >>

RECURSIVE up_to_brace(_)
\* The text before its first `}`.
up_to_brace(text) ==
    IF text = << >> \/ Head(text) = "}" THEN << >>
    ELSE << Head(text) >> \o up_to_brace(Tail(text))

Closed(text) == \E i \in 1..Len(text) : text[i] = "}"

\* The value of a name, or nothing when the name is not bound.
value_of(name) ==
    IF name \in DOMAIN expand_parameters THEN expand_parameters[name] ELSE << >>

\* C17: after a `$` followed by a name-start character, the token is the
\* `$` and the longest run of name characters that follows it; the output
\* holds the value of that name in place of the token when the name is
\* bound, and nothing in place of the token when it is not.
C17_Unbraced ==
    \A k \in 1..Len(steps) :
        (/\ Started(k)
         /\ following(k) /= << >>
         /\ is_name_start(Head(following(k)))
         /\ Resumed(k)) =>
            LET name == name_run(following(k))
            IN  /\ resumed(k).inner = Drop(following(k), Len(name))
                /\ resumed(k).out = steps[k].out \o value_of(name)

\* The name aa is followed by a character that is not a name character; a
\* and aa are both bound, and the value of aa is what the output gains.
C17_Witness ==
    /\ expansion.done
    /\ \E k \in 1..Len(steps) :
          /\ Started(k)
          /\ name_run(following(k)) = << "a", "a" >>
          /\ Len(following(k)) > 2
          /\ << "a" >> \in DOMAIN expand_parameters
          /\ resumed(k).out = steps[k].out \o expand_parameters[<< "a", "a" >>]

\* C18: for a `${` closed by a `}`, the token is the text up to that `}`;
\* the output holds the value of the name between the braces in place of
\* the token when every character between the braces is a name character
\* and the name is bound, and nothing in place of the token otherwise, even
\* when the name characters between the braces spell a bound name.
C18_Braced ==
    \A k \in 1..Len(steps) :
        (/\ Started(k)
         /\ following(k) /= << >>
         /\ Head(following(k)) = "{"
         /\ Closed(Tail(following(k)))
         /\ Resumed(k)) =>
            LET body == up_to_brace(Tail(following(k)))
                valid == \A i \in 1..Len(body) : NameChar(body[i])
            IN  /\ resumed(k).inner = Drop(following(k), Len(body) + 2)
                /\ resumed(k).out =
                       steps[k].out \o (IF valid THEN value_of(body) ELSE << >>)

\* The braces hold a- : the name characters spell the bound name a, and the
\* output gains nothing.
C18_Witness ==
    /\ expansion.done
    /\ \E k \in 1..Len(steps) :
          /\ Started(k)
          /\ following(k) = << "{", "a", "-", "}" >>
          /\ << "a" >> \in DOMAIN expand_parameters
          /\ expansion.out = steps[k].out

\* C19 as claimed: when the input ends inside a `${`, the output gains the
\* input text from that `${` to the end of the input.
C19_Unterminated ==
    \A k \in 1..Len(steps) :
        (/\ Started(k)
         /\ following(k) /= << >>
         /\ Head(following(k)) = "{"
         /\ ~Closed(Tail(following(k)))
         /\ Resumed(k)) =>
            /\ resumed(k).inner = << >>
            /\ resumed(k).out = steps[k].out \o << "$" >> \o following(k)

\* C20: a `$` that is followed neither by `{` nor by a name-start character
\* is returned as it is, the character that follows it is not consumed, and
\* the rest of the output is the expansion of the input that follows the `$`.
C20_LoneDollar ==
    \A k \in 1..(Len(steps) - 1) :
        (/\ Started(k)
         /\ \/ following(k) = << >>
            \/ /\ Head(following(k)) /= "{"
               /\ ~is_name_start(Head(following(k)))) =>
            /\ steps[k + 1].state = "NotExpanding"
            /\ steps[k + 1].inner = following(k)
            /\ steps[k + 1].out = Append(steps[k].out, "$")
            /\ expansion.done =>
                  expansion.out = Append(steps[k].out, "$")
                                  \o expand(following(k), expand_parameters)

\* A `$` is followed by a digit and then by a reference to a bound name: the
\* output holds the `$`, the digit and the value of the name.
C20_Witness ==
    /\ expansion.done
    /\ \E k \in 1..Len(steps) :
          /\ Started(k)
          /\ following(k) = << "1", "$", "a" >>
          /\ << "a" >> \in DOMAIN expand_parameters
          /\ expansion.out = steps[k].out \o << "$", "1" >> \o expand_parameters[<< "a" >>]

(***************************************************************************)
(* Claims about Unescape, which reads the characters Expand returns        *)
(***************************************************************************)
RECURSIVE one_layer_removed(_)
\* The text with one layer of backslash escaping removed: a backslash and
\* the character after it stand for that character, a backslash that ends
\* the text stands for nothing, and any other character stands for itself.
one_layer_removed(text) ==
    IF text = << >> THEN << >>
    ELSE IF Head(text) /= "\\" THEN << Head(text) >> \o one_layer_removed(Tail(text))
    ELSE IF Len(text) = 1 THEN << >>
    ELSE << text[2] >> \o one_layer_removed(Drop(text, 2))

\* The characters Expand has returned, all of which Unescape has read when
\* it returns end-of-sequence.
unescape_read == expansion.out

\* C21: when Unescape returns end-of-sequence, what it returned is what it
\* read with one layer of backslash escaping removed: every backslash that
\* is not itself escaped is dropped, the character after it is returned as
\* it is, a backslash included, and every other character is returned
\* unchanged and in order.
C21_OneLayer ==
    unescaping.done => unescaping.out = one_layer_removed(unescape_read)

\* Unescape has read an escaped backslash, an escaped ordinary character
\* and a backslash that ends the input.
C21_Witness ==
    /\ unescaping.done
    /\ unescape_read = << "\\", "\\", "\\", "a", "\\" >>
    /\ unescaping.out = << "\\", "a" >>

(***************************************************************************)
(* SpecExpandFair: SpecExpand in which an iterator that can take a step    *)
(* takes it: collect() calls next() until it returns None.                 *)
(***************************************************************************)
SpecExpandFair == ExpandInit /\ [][ExpandNext]_vars /\ WF_vars(ExpandNext)

\* The rank of a state of Expand: a state that reads input before anything
\* else ranks above Buffered, which ranks above NotExpanding.
state_rank(e) ==
    CASE e.done -> 0
      [] e.state = "NotExpanding" -> 1
      [] e.state = "Buffered" -> 2
      [] OTHER -> 3

\* The first iterator state is nearer to the end of the sequence than the
\* second: it has less input left, or as much input and a lower state, or
\* the same state and a shorter buffer.
Nearer(after, before) ==
    \/ Len(after.inner) < Len(before.inner)
    \/ /\ Len(after.inner) = Len(before.inner)
       /\ state_rank(after) < state_rank(before)
    \/ /\ Len(after.inner) = Len(before.inner)
       /\ state_rank(after) = state_rank(before)
       /\ after.state = "Buffered"
       /\ Len(after.value) < Len(before.value)

\* Every transition of Expand consumes input, drains its buffer or moves to
\* a lower state, and every transition of Unescape consumes a character or
\* ends the sequence.
Progress ==
    /\ expansion_steps' /= expansion_steps => Nearer(expansion', expansion)
    /\ expansion_steps' = expansion_steps =>
          \/ Len(unescaping'.inner) < Len(unescaping.inner)
          \/ unescaping'.done /\ ~unescaping.done

\* C22: on every input and every parameter map, Expand and the Unescape
\* that reads it both return end-of-sequence after finitely many
\* transitions; no transition of Expand leaves it in the same state with as
\* much input and as much buffer as before.
C22_Terminates ==
    /\ <>(expansion.done /\ unescaping.done)
    /\ [][Progress]_vars

\* Both iterators are over after Expand was in each of its six states, on
\* an input of MaxExpandLen characters.
C22_Witness ==
    /\ expansion.done
    /\ unescaping.done
    /\ Len(expand_input) = MaxExpandLen
    /\ \E k \in 1..Len(steps) : steps[k].state = "Escape"
    /\ \E k \in 1..Len(steps) : steps[k].state = "Buffered" /\ Len(steps[k].value) = 2
    /\ \E k \in 1..Len(steps) : steps[k].state = "UnbracedExpansion"

(***************************************************************************)
(* The order of a run: decisions and report, confirmation, execution.      *)
(***************************************************************************)
\* The logged operations that change the local files or the remote store.
ChangeOps == {"write_local", "truncate_local", "set_secret", "create_file",
              "write_chunk", "write_file", "upload"}

Changes == {i \in DOMAIN log : log[i].op \in ChangeOps}

Reported(i) == \E j \in 1..(i - 1) : log[j].op = "report"

Answered(i, answer) == \E j \in 1..(i - 1) : log[j] = Event("confirm", << answer >>)

Refused == \E j \in DOMAIN log : log[j] = Event("confirm", << "n" >>)

\* The units the command decides on: the names to synchronize, or the
\* blobs of the paths.
units ==
    IF options.command = "file" THEN BlobNames
    ELSE LET template == IF options.no_template THEN Some(None)
                         ELSE from_path_exists(disk.template)
         IN  Unwrap(vars_to_sync(Unwrap(template), run.dotenv))

decided == {run.actions[i].name : i \in DOMAIN run.actions}

DecidedBeforeExecuted ==
    /\ \A i \in Changes :
          /\ Reported(i)
          /\ decided = units
          /\ ~options.no_confirm => Answered(i, "y")
    /\ Refused => /\ run.pc = "failed"
                  /\ Changes = {}

\* A local file or the store changes only in a step that logs the change,
\* and the decisions are not revised once they are reported.
ChangesAreLogged ==
    /\ (disk' /= disk \/ store' /= store) =>
          /\ Len(log') > Len(log)
          /\ \A i \in (Len(log) + 1)..Len(log') : log'[i].op \in ChangeOps
    /\ run.pc \notin {"start", "fetching"} => run'.actions = run.actions

\* C23: in the dotenv and file commands every decision is computed and the
\* report is printed before the first push, pull or local write; unless
\* confirmation is disabled a "yes" precedes the first of them, and a "no"
\* aborts the run with nothing changed.
C23_DecideBeforeExecute == []DecidedBeforeExecuted /\ [][ChangesAreLogged]_vars

\* A change made after the report and a "yes".
C23_Witness ==
    \E i \in Changes : Reported(i) /\ Answered(i, "y") /\ ~options.no_confirm

(***************************************************************************)
(* Failure of a transfer.                                                  *)
(***************************************************************************)
\* A step in which a push or a pull fails.
TransferFails == run.pc = "executing" /\ run'.pc = "failed"

NoRollback ==
    /\ TransferFails =>
          /\ run'.result = Some("Err")
          /\ store' = store
          /\ disk'.dotenv = disk.dotenv
          /\ \A path \in FilePaths :
                blob_name_of(path) \notin run.pending =>
                    disk'.files[path] = disk.files[path]
          /\ run'.pending = run.pending
    /\ run.pc /= "failed"

\* C24: when a push or a pull fails the result is an error, the effects of
\* the transfers and of the local write completed before the failure
\* remain, and the transfers not completed are not driven further.
C24_FailureWithoutRollback == [][NoRollback]_vars

\* A run that failed after a transfer had completed, with another left
\* undone.
C24_Witness ==
    /\ run.pc = "failed"
    /\ \E i \in Changes : log[i].op \in {"set_secret", "write_file", "upload"}
    /\ run.pending /= {}

(***************************************************************************)
(* The modification time of the rewritten dotenv file.                     *)
(***************************************************************************)
\* The dotenv command has persisted the rewritten document.
Persisted ==
    /\ options.command = "dotenv"
    /\ \E i \in DOMAIN log : log[i].op = "write_local"

\* The timestamps the rewritten file derives from: the one the dotenv file
\* was loaded with, and those of the secrets that were pulled.
source_times ==
    LET pulled == DOMAIN pull_map(run.actions)
        prior == IF IsSome(run.dotenv) THEN Unwrap(run.dotenv).last_modified ELSE None
    IN  (IF IsSome(prior) THEN {Unwrap(prior)} ELSE {})
        \cup {Unwrap(Unwrap(store.secrets[secret_name(n)])[2]) :
                 n \in {k \in pulled : IsSome(Unwrap(store.secrets[secret_name(k)])[2])}}

newest(times) == CHOOSE t \in times : \A u \in times : u <= t

\* C25: after the dotenv command persists the rewritten document, the
\* modification time of the local file is the newer of the prior local
\* timestamp and the newest timestamp among the pulled values.
C25_ModifiedTime ==
    (Persisted /\ source_times /= {}) =>
        Unwrap(disk.dotenv).modified = newest(source_times)

(***************************************************************************)
(* PushAlways in the dotenv command.                                       *)
(***************************************************************************)
RemoteReads == {i \in DOMAIN log : log[i].op \in {"get_secret", "download"}}

\* The value the loaded dotenv file gives the name.
loaded_value(name) ==
    IF IsSome(run.dotenv) THEN map_get(Unwrap(run.dotenv).parameters, name) ELSE None

\* C26: under PushAlways the dotenv command reads nothing from the remote
\* store, and decides Push for every variable that has a local value and
\* Skip for every variable that has none.
C26_PushAlways ==
    (options.command = "dotenv" /\ options.sync_mode = "PushAlways") =>
        /\ RemoteReads = {}
        /\ \A i \in DOMAIN run.actions :
              \E var_act \in {run.actions[i]} :
                 IF IsSome(loaded_value(var_act.name))
                 THEN /\ var_act.kind = "Push"
                      /\ var_act.value = loaded_value(var_act.name)
                 ELSE var_act.kind = "Skip"

\* A PushAlways run that decided a Push and a Skip while the store holds a
\* secret for the pushed variable.
C26_Witness ==
    /\ options.command = "dotenv"
    /\ options.sync_mode = "PushAlways"
    /\ \E i, j \in DOMAIN run.actions :
          /\ run.actions[i].kind = "Push"
          /\ IsSome(store.secrets[secret_name(run.actions[i].name)])
          /\ run.actions[j].kind = "Skip"

(***************************************************************************)
(* The early exit after the report.                                        *)
(***************************************************************************)
HasReported == \E i \in DOMAIN log : log[i].op = "report"

Confirms == {i \in DOMAIN log : log[i].op = "confirm"}

\* if check_only || unchanged
ExitsEarly == options.check_only \/ unchanged(run.actions)

NothingDone == Changes = {} /\ Confirms = {}

EarlyExit ==
    /\ options.check_only => NothingDone
    /\ (HasReported /\ ExitsEarly) =>
          /\ NothingDone
          /\ run.pc \in {"reported", "exited"}
    /\ run.pc = "exited" =>
          /\ HasReported /\ ExitsEarly
          /\ run.status = Some(IF unchanged(run.actions) THEN 0 ELSE 1)

\* The step that follows the report of a run that exits early is the exit.
ExitFollowsReport ==
    (run.pc = "reported" /\ ExitsEarly) => run'.pc = "exited"

\* C27: with check_only a sync command makes no local write, no remote
\* write and asks no confirmation, and exits right after the report, with
\* status 0 if every decision is Skip and 1 otherwise; without check_only
\* it exits in the same way, with status 0, when every decision is Skip.
C27_CheckOnly == []EarlyExit /\ [][ExitFollowsReport]_vars

\* A check_only run that found something to do and exited with status 1.
C27_Witness ==
    /\ options.check_only
    /\ run.pc = "exited"
    /\ run.status = Some(1)
    /\ ~unchanged(run.actions)

(***************************************************************************)
(* The no_confirm flag.                                                    *)
(***************************************************************************)
\* C28: when no_confirm is set a sync command, dotenv or file, never asks
\* for confirmation: after the report it executes the actions without
\* waiting for an answer.
C28_NoConfirm == options.no_confirm => Confirms = {}

(***************************************************************************)
(* The template of the dotenv command.                                     *)
(***************************************************************************)
\* A template file exists and --no-template is not given.
TemplateUsed ==
    /\ options.command = "dotenv"
    /\ ~options.no_template
    /\ IsSome(disk.template)

template_names == DOMAIN Unwrap(parse(Unwrap(disk.template).content)).parameters

local_names == IF IsSome(run.dotenv) THEN DOMAIN Unwrap(run.dotenv).parameters ELSE {}

\* The dotenv file as it is on the disk, parsed.
written_file == Unwrap(parse(Unwrap(disk.dotenv).content))

Pushed(name) == \E i \in DOMAIN log : log[i] = Event("set_secret", secret_name(name))

\* The variables decided are those of the template, and a variable of the
\* dotenv file alone is not decided, not pushed, and defined in the written
\* file as it was in the loaded one.
TemplateDecides ==
    (TemplateUsed /\ HasReported) =>
        /\ decided = template_names
        /\ \A name \in local_names \ template_names :
              /\ name \notin decided
              /\ ~Pushed(name)
              /\ Persisted =>
                    /\ name \in DOMAIN written_file.parameters
                    /\ written_file.parameters[name] = Unwrap(loaded_value(name))
                    /\ Slice(written_file.source,
                             written_file.value_spans[name].start,
                             written_file.value_spans[name].end)
                         = Slice(Unwrap(run.dotenv).source,
                                 Unwrap(run.dotenv).value_spans[name].start,
                                 Unwrap(run.dotenv).value_spans[name].end)

\* A name of the template that the dotenv file lacks and the store holds
\* is in the file the completed run of one of the modes leaves.
TemplateAdds(modes) ==
    (TemplateUsed /\ run.pc = "done" /\ options.sync_mode \in modes) =>
        \A name \in template_names \ local_names :
            IsSome(store.secrets[secret_name(name)]) =>
                /\ name \in DOMAIN written_file.parameters
                /\ written_file.parameters[name]
                      = Unwrap(store.secrets[secret_name(name)])[1]

TemplateKept == disk'.template = disk.template

\* C29 as stated: with a template in use the variables decided are exactly
\* the template's names, a variable only in the dotenv file is never
\* pushed, pulled or rewritten, a template name missing locally and present
\* remotely is added to the dotenv file, and the template is never written.
C29_TemplateRestriction ==
    [](TemplateDecides /\ TemplateAdds(SyncMode)) /\ [][TemplateKept]_vars

\* C29, amended: the missing name is added by the runs of the modes that
\* pull (Sync, Pull and PullAlways); under Push and PushAlways it is
\* skipped and the dotenv file does not get it.
C29_TemplateRestrictionPulling ==
    [](TemplateDecides /\ TemplateAdds({"Sync"} \cup PullModes)) /\ [][TemplateKept]_vars

\* A completed run with a template that added a name the dotenv file
\* lacked and left alone a variable the template lacks.
C29_Witness ==
    /\ TemplateUsed
    /\ run.pc = "done"
    /\ \E name \in template_names \ local_names :
          /\ IsSome(store.secrets[secret_name(name)])
          /\ name \in DOMAIN written_file.parameters
    /\ DOMAIN written_file.parameters \ template_names /= {}

(***************************************************************************)
(* Claims about the partition of the edits of replace                      *)
(***************************************************************************)
\* The edits of the names that have a recorded span and are not referenced,
\* and the other edits.
SpannedUnreferenced ==
    {n \in DOMAIN replacements :
        n \in DOMAIN dotenv.value_spans /\ n \notin dotenv.referenced}

OtherEdits == DOMAIN replacements \ SpannedUnreferenced

\* The source with the spans of the names holding their new values, and
\* every other byte, the definitions of the other names included, as it is.
edited_in_place(names) == substituted(names, 0)

\* C30: replace applies an edit in place, exactly on the recorded span, if
\* and only if the name has a recorded span and is not in `referenced`;
\* every other edit is appended at the end of the file, the existing
\* definition of its name, if any, being left unchanged; and every edit of
\* an empty document is appended.
C30_Partition ==
    Replaced =>
        /\ \E order \in Orders(OtherEdits) :
              new_source =
                  edited_in_place(SpannedUnreferenced)
                  \o (IF \/ OtherEdits = {}
                         \/ edited_in_place(SpannedUnreferenced) = << >>
                         \/ EndsInNewline(edited_in_place(SpannedUnreferenced))
                      THEN << >> ELSE << "\n" >>)
                  \o definition_lines(order)
        /\ dotenv.source = << >> =>
              \E order \in Orders(DOMAIN replacements) :
                  new_source = definition_lines(order)

\* A is defined and referenced by the definition of B, and both are edited:
\* the edit of B is made in place and the edit of A is appended.
C30_Witness ==
    /\ Replaced
    /\ SpannedUnreferenced = { << "B" >> }
    /\ OtherEdits = { << "A" >> }
    /\ << "A" >> \in DOMAIN dotenv.value_spans
    /\ << "A" >> \in dotenv.referenced

(***************************************************************************)
(* Claims about the recorded spans                                         *)
(***************************************************************************)
Spanned == DOMAIN dotenv.value_spans

\* The two ranges share no byte.
Disjoint(a, b) == a.end <= b.start \/ b.end <= a.start

SpansWellFormed ==
    /\ Spanned \subseteq DOMAIN dotenv.parameters
    /\ \A n \in Spanned :
          /\ 0 <= dotenv.value_spans[n].start
          /\ dotenv.value_spans[n].start <= dotenv.value_spans[n].end
          /\ dotenv.value_spans[n].end <= Len(dotenv.source)
    /\ \A n \in Spanned : \A m \in Spanned \ {n} :
          Disjoint(dotenv.value_spans[n], dotenv.value_spans[m])

\* The edits made in place one after the other, last span first, give the
\* text in which all the spans are substituted at once.
OneByOneIsSimultaneous ==
    \E at_once \in {edited_in_place(InPlace)} :
        /\ Len(new_source) >= Len(at_once)
        /\ SubSeq(new_source, 1, Len(at_once)) = at_once

\* C31: after a successful parse every key of value_spans is a key of
\* parameters, every span satisfies 0 <= start <= end <= Len(source), the
\* spans of two names do not overlap, and so the in-place edits applied in
\* descending order of span end give the text of their simultaneous
\* substitution.
C31_SpansWellFormed ==
    /\ SpansWellFormed
    /\ Replaced => OneByOneIsSimultaneous

\* Two names are edited in place and the text changes length.
C31_Witness ==
    /\ Replaced
    /\ Cardinality(InPlace) = 2
    /\ Len(new_source) /= Len(dotenv.source)
    /\ \A n \in InPlace :
          Len(escape(replacements[n]))
             /= dotenv.value_spans[n].end - dotenv.value_spans[n].start

(***************************************************************************)
(* The one write of the dotenv file.                                       *)
(***************************************************************************)
DotenvWrites == {i \in DOMAIN log : log[i].op \in {"write_local", "truncate_local"}}

PulledNames == names_of(run.actions, {"Pull"})

\* The value the store holds for each pulled name.
pulled_values ==
    [name \in PulledNames |-> Unwrap(store.secrets[secret_name(name)])[1]]

\* The dotenv file replace is called on.
rewritten_file == IF IsSome(run.dotenv) THEN Unwrap(run.dotenv) ELSE DotenvFile_default

SingleWrite ==
    /\ Cardinality(DotenvWrites) <= 1
    /\ \A i \in DotenvWrites :
          /\ \A name \in PulledNames :
                \E j \in 1..(i - 1) : log[j] = Event("get_secret", secret_name(name))
          /\ \A j \in (i + 1)..Len(log) : log[j].op /= "get_secret"
          /\ run.awaiting = {}
          /\ \A name \in PulledNames : secret_name(name) \in DOMAIN run.responses
    /\ Persisted =>
          \E self \in {rewritten_file}, pull \in {pulled_values} :
             \E added \in Orders(added_names(self, pull)) :
                Unwrap(disk.dotenv).content = replace(self, pull, added)

\* C32: the dotenv command writes the local file at most once in a run,
\* with the text of one replace whose edit map holds the values of all the
\* Pull decisions, and not before every pulled value has been fetched.
C32_SingleWrite == SingleWrite

\* The file was written with two pulled values.
C32_Witness ==
    /\ Persisted
    /\ Cardinality(PulledNames) = 2

(***************************************************************************)
(* Claims about the buffer of Expand                                       *)
(***************************************************************************)
\* The k-th state is the one a substitution leaves: the value of a name is
\* in the buffer and the name has been recorded.
Substituted(k) ==
    /\ k > 1
    /\ steps[k].state = "Buffered"
    /\ Len(steps[k].expanded) = Len(steps[k - 1].expanded) + 1

\* The states from the k-th on emit the buffer of the k-th, one character
\* each, reading no input and recording no name, and the state after the
\* last character is NotExpanding.
Replayed(k) ==
    \E buffer \in {steps[k].value} :
       \A m \in k..Len(steps) :
          /\ m - k <= Len(buffer) =>
                /\ steps[m].state = "Buffered"
                /\ steps[m].value = Drop(buffer, m - k)
                /\ steps[m].out = steps[k].out \o SubSeq(buffer, 1, m - k)
                /\ steps[m].inner = steps[k].inner
                /\ steps[m].expanded = steps[k].expanded
          /\ m - k = Len(buffer) + 1 =>
                /\ steps[m].state = "NotExpanding"
                /\ steps[m].out = steps[k].out \o buffer
                /\ steps[m].inner = steps[k].inner
                /\ steps[m].expanded = steps[k].expanded

\* C33: a substituted value is emitted character by character from the
\* buffer and is not scanned again: a `$`, a `${` or a backslash in it
\* starts no expansion and no escape.
C33_NoRecursion == \A k \in 1..Len(steps) : Substituted(k) => Replayed(k)

\* A value that holds a backslash, a `$` and a `{` has been emitted whole.
C33_Witness ==
    \E k \in 1..Len(steps) :
        /\ Substituted(k)
        /\ {"\\", "$", "{"} \subseteq {steps[k].value[i] : i \in 1..Len(steps[k].value)}
        /\ Len(steps) > k + Len(steps[k].value)

(***************************************************************************)
(* Claims about the Escape state of Expand                                 *)
(***************************************************************************)
\* The k-th state is the one that follows a backslash read in NotExpanding.
Escaping(k) == steps[k].state = "Escape"

\* The backslash and the character that follows it, or the backslash alone
\* at the end of the input.
escaped_pair(k) ==
    IF following(k) = << >> THEN << "\\" >> ELSE << "\\", Head(following(k)) >>

EscapePassesThrough ==
    \A k \in 1..Len(steps) :
        (Escaping(k) /\ Resumed(k)) =>
            /\ resumed(k).out = steps[k].out \o escaped_pair(k)
            /\ resumed(k).inner = Drop(following(k), 1)
            /\ resumed(k).expanded = steps[k].expanded
            /\ \A m \in k..Len(steps) :
                  (\A n \in (k + 1)..m : steps[n].state /= "NotExpanding") =>
                      steps[m].state \in {"Escape", "Buffered"}

\* `\$a` is returned as it is, and `\\$a` is the two backslashes and the
\* value of a.
OneOrTwoBackslashes ==
    (expansion.done /\ << "a" >> \in DOMAIN expand_parameters) =>
        /\ expand_input = << "\\", "$", "a" >> => expansion.out = expand_input
        /\ expand_input = << "\\", "\\", "$", "a" >> =>
              expansion.out = << "\\", "\\" >> \o expand_parameters[<< "a" >>]

\* C34: a backslash and the character that follows it are both emitted
\* unchanged and that character starts no expansion, so `$NAME` after one
\* backslash is not expanded and `$NAME` after two backslashes is; a
\* backslash at the end of the input is emitted alone.
C34_Escape == EscapePassesThrough /\ OneOrTwoBackslashes

\* `\$a` with a bound has been returned whole.
C34_Witness ==
    /\ expansion.done
    /\ << "a" >> \in DOMAIN expand_parameters
    /\ expand_input = << "\\", "$", "a" >>
    /\ expansion.out = expand_input

(***************************************************************************)
(* Claims about the timestamp a decision carries                           *)
(***************************************************************************)
\* C35: every Pull that SyncType::from_modified returns is built with the
\* remote timestamp and every Push with the local timestamp, in every mode
\* and for every pair of timestamps.
C35_TimestampCarried ==
    Decided =>
        /\ decision.kind = "Pull" => decision.modified = remote_modified
        /\ decision.kind = "Push" => decision.modified = local_modified

(***************************************************************************)
(* Claims about what a decision needs                                      *)
(***************************************************************************)
\* The decision of from_modified has the timestamp of the side it reads.
BuilderHasTimestamp ==
    Decided =>
        /\ decision.kind = "Pull" => IsSome(remote_modified)
        /\ decision.kind = "Push" => IsSome(local_modified)

\* A PullFile of the file command has a downloaded blob to save, and a
\* PushFile a local file to upload.
ActionHasSource ==
    options.command = "file" =>
        \A i \in DOMAIN run.actions :
            /\ run.actions[i].kind = "Pull" =>
                  IsSome(run.responses[run.actions[i].name])
            /\ run.actions[i].kind = "Push" =>
                  IsSome(run.opened[path_of(run.actions[i].name)])

\* C36: SyncType::from_modified calls the pull builder only when the remote
\* timestamp is present and the push builder only when the local timestamp
\* is present; in get_file_action the remote timestamp is present exactly
\* when a blob was downloaded, so the PullFile always has its blob.
C36_SomethingToPull == BuilderHasTimestamp /\ ActionHasSource

\* A blob was pulled to a path that had no file, while another blob of the
\* run is absent.
C36_Witness ==
    /\ options.command = "file"
    /\ \E i \in DOMAIN log : log[i].op = "write_file"
    /\ \E i \in DOMAIN run.actions :
          /\ run.actions[i].kind = "Pull"
          /\ run.actions[i].name \notin run.pending
    /\ \E name \in BlobNames : IsNone(store.blobs[name])

(***************************************************************************)
(* Claims about a second run of the file command                           *)
(***************************************************************************)
\* The decision on the two timestamps is Skip "unchanged" in the modes
\* Sync, Push and Pull.
Converged(local_mod, remote_mod) ==
    \A mode \in {"Sync", "Push", "Pull"} :
        from_modified(mode, local_mod, remote_mod) = SyncType_Skip("unchanged")

\* The timestamps a decision of from_modified leaves when it is executed:
\* a push gives the remote side the timestamp it carries, a pull the local
\* side.
DecisionConverges ==
    Decided =>
        /\ decision.kind = "Push" => Converged(local_modified, decision.modified)
        /\ decision.kind = "Pull" => Converged(decision.modified, remote_modified)

\* The transfers of the file command that completed.
Transferred ==
    {path \in FilePaths :
        \E i \in DOMAIN log :
            \/ log[i] = Event("write_file", path)
            \/ log[i] = Event("upload", blob_name_of(path))}

ExecutionConverges ==
    \A path \in Transferred :
        /\ IsSome(disk.files[path])
        /\ IsSome(store.blobs[blob_name_of(path)])
        /\ Converged(Some(Unwrap(disk.files[path]).modified),
                     Some(Unwrap(store.blobs[blob_name_of(path)]).modified))

\* C37: after the Push or the Pull decided for a file is executed, the
\* decision on the resulting timestamps is Skip "unchanged" in the modes
\* Sync, Push and Pull, whatever mode produced the first decision.
C37_Convergence == DecisionConverges /\ ExecutionConverges

\* Under PullAlways a blob was pulled over a file whose time is less than a
\* minute from the blob's, and differs from it.
C37_Witness ==
    /\ options.command = "file"
    /\ options.sync_mode = "PullAlways"
    /\ \E path \in Transferred :
          /\ Unwrap(disk.files[path]).content = Unwrap(store.blobs[blob_name_of(path)]).content
          /\ Unwrap(disk.files[path]).modified
                /= Unwrap(store.blobs[blob_name_of(path)]).modified

(***************************************************************************)
(* Claims about the value of a reference                                   *)
(***************************************************************************)
\* C38: when a name is defined earlier in the file and the value of a
\* definition is exactly one reference to it ($NAME or ${NAME}, bare or
\* within double quotes), the resolved value of the definition is the
\* resolved value of the name, whatever that value is.
C38_ReferenceFidelity ==
    \A i \in 1..Len(defined) : \A name \in Names :
        (WholeReference(defined[i], name) /\ name \in DOMAIN defined[i].parameters) =>
            defined[i].value = defined[i].parameters[name]

(***************************************************************************)
(* Claims about the names an edit touches                                  *)
(***************************************************************************)
\* The text replace returned has been parsed again, with success.
ReparsedOk == IsSome(reparsed) /\ IsSome(Unwrap(reparsed))

reparsed_parameters == Unwrap(Unwrap(reparsed)).parameters

\* C39: parsing the text replace returns gives every name that is not in
\* the edit map the value it has in the document, and defines no name that
\* is neither in the document nor in the edit map, whatever the new values
\* are.
C39_NoLeak ==
    ReparsedOk =>
        /\ \A n \in DOMAIN dotenv.parameters \ DOMAIN replacements :
              /\ n \in DOMAIN reparsed_parameters
              /\ reparsed_parameters[n] = dotenv.parameters[n]
        /\ DOMAIN reparsed_parameters
              \subseteq DOMAIN dotenv.parameters \cup DOMAIN replacements

(***************************************************************************)
(* Claims about the content of `referenced`                                *)
(***************************************************************************)
\* The names the files of the model define or refer to.
ReferredNames == Names \cup { << "C" >> }

\* The i-th definition is located after the last definition of the name.
AfterLastDefinition(i, name) ==
    \A j \in i..Len(defined) : defined[j].name /= name

\* The i-th definition substituted the value of the name.
SubstitutedBy(i, name) == name \in defined[i].expanded

ReferencedCharacterised ==
    Parsed =>
        \A name \in ReferredNames :
            name \in parsed_file.referenced <=>
                \E i \in 1..Len(defined) :
                    AfterLastDefinition(i, name) /\ SubstitutedBy(i, name)

\* What the i-th iteration does to `referenced` for the names it does not
\* substitute: nothing, but for the removal of the name it defines.
ReferencesThatDoNotCount ==
    \A i \in 1..Len(defined) :
        /\ \A name \in ReferredNames :
              (WholeReference(defined[i], name)
                  /\ name \notin DOMAIN defined[i].parameters) =>
                      /\ ~SubstitutedBy(i, name)
                      /\ name \notin defined[i].referenced \ referenced_before(i)
        /\ defined[i].rule = "var_value_sq" =>
              /\ defined[i].expanded = {}
              /\ defined[i].referenced = referenced_before(i) \ {defined[i].name}
        /\ defined[i].name \notin defined[i].referenced

\* C40: after parse a name is in `referenced` exactly when a definition
\* located after the last definition of the name substituted its value; a
\* reference to a name that is not defined yet, a reference within single
\* quotes and a reference made by the last definition of the name itself
\* do not put the name in `referenced`.
C40_Referenced == ReferencedCharacterised /\ ReferencesThatDoNotCount

\* A is referenced by a definition of B that follows it, and another
\* definition holds `$A` within single quotes.
C40_Witness ==
    /\ Parsed
    /\ parsed_file.referenced = { << "A" >> }
    /\ \E i \in 1..Len(defined) :
          /\ defined[i].rule = "var_value_sq"
          /\ defined[i].text = << "'", "$", "A", "'" >>

====
